---- MODULE Spec2Model ----
(***************************************************************************)
(* Model of the QUIC handshake packet engine of src/src/xprt_quic.c: one   *)
(* connection, its encryption levels and packet-number spaces, the inbound *)
(* CRYPTO stream, the ACK processing of outgoing CRYPTO descriptors, the   *)
(* handshake packet builder and the output buffer ring.                    *)
(***************************************************************************)
EXTENDS Integers, Sequences, FiniteSets, TLC

(***************************************************************************)
(* Bounds of the model (not program constants).                            *)
(***************************************************************************)
\* number of packets the peer delivers during a run
MaxRcv == 2
\* number of add_handshake_data calls of the TLS provider during a run
MaxEmit == 1
\* number of ranges of a received ACK frame beyond the first one
MaxAckRanges == 1
\* how far below the last packet number sent the largest_ack field of a
\* received ACK frame may lie
MaxAckBack == 3
\* largest first_ack_range / ack_range / gap value of a received ACK frame
MaxAckField == 1
\* number of received packets that may wait for the tasklet at the same time
MaxBurst == 1
\* number of tasklet steps of a run that meet a failure of a library call
MaxFail == 1
\* rank, among the packets built by one tasklet step, of the last one that
\* may meet a failure of the crypto library or of the allocator
MaxFailAt == 2
\* largest packet number inserted in a list of ACK ranges on its own
MaxPn == 6
\* the Version field of the packets of the peer that are not Version
\* Negotiation packets: any non-zero value
RxVersion == 1

(***************************************************************************)
(* Program constants.                                                      *)
(***************************************************************************)
QUIC_TLS_ENC_LEVEL_INITIAL == 0
QUIC_TLS_ENC_LEVEL_HANDSHAKE == 2
QUIC_TLS_ENC_LEVEL_APP == 3
QUIC_TLS_TAG_LEN == 16
QUIC_CRYPTO_IN_FLIGHT_MAX == 4096
QUIC_CONN_TX_BUFS_NB == 8
\* constants of headers that are not part of the sources at hand
QUIC_PACKET_MAXLEN == 1252
QUIC_INITIAL_PACKET_MINLEN == 1200
QUIC_LONG_PACKET_MINLEN == 7
QUIC_CID_LEN == 8

Levels == {QUIC_TLS_ENC_LEVEL_INITIAL, QUIC_TLS_ENC_LEVEL_HANDSHAKE, QUIC_TLS_ENC_LEVEL_APP}

\* a NULL eb64 node: keys are packet numbers, which are never negative
NULL == -1

Min(a, b) == IF a < b THEN a ELSE b

\* comparison a > b of two 64-bit values after the usual arithmetic
\* conversion to unsigned (one side uint64_t, the other int64_t): a negative
\* value converts to a value above every non-negative one
UGt(a, b) ==
  IF b < 0 THEN (a < 0 /\ a > b) ELSE (a < 0 \/ a > b)

RECURSIVE SumLen(_)
SumLen(T) ==
  IF T = {} THEN 0
  ELSE LET f == CHOOSE x \in T : TRUE IN f.len + SumLen(T \ {f})

(***************************************************************************)
(* eb64 trees of TX CRYPTO frame descriptors [pn, offset, len], keyed by   *)
(* pn.  A node is designated by its key.                                   *)
(***************************************************************************)
Keys(T) == {f.pn : f \in T}

Frm(T, k) == CHOOSE f \in T : f.pn = k

eb64_lookup(T, k) == IF k \in Keys(T) THEN k ELSE NULL

eb64_prev(T, k) ==
  LET below == {x \in Keys(T) : x < k}
  IN IF below = {} THEN NULL ELSE CHOOSE x \in below : \A y \in below : y <= x

eb64_first(T) ==
  IF T = {} THEN NULL ELSE CHOOSE x \in Keys(T) : \A y \in Keys(T) : x <= y

eb64_next(T, k) ==
  LET above == {x \in Keys(T) : x > k}
  IN IF above = {} THEN NULL ELSE CHOOSE x \in above : \A y \in above : x <= y

(***************************************************************************)
(* quic_update_ack_ranges_list(): the list of ACK ranges of a space, as a  *)
(* sequence of [first, last] from the head of the list to its tail.       *)
(***************************************************************************)
\* a variant whose range reaches one packet number too far
NewSackWide(pn) == [first |-> pn, last |-> pn + 1]

NewSack(pn) == [first |-> pn, last |-> pn]

InsertAt(s, i, e) == SubSeq(s, 1, i - 1) \o <<e>> \o SubSeq(s, i, Len(s))

\* a variant that leaves the element in the list
KeepAt(s, i) == s

RemoveAt(s, i) == SubSeq(s, 1, i - 1) \o SubSeq(s, i + 1, Len(s))

RECURSIVE ack_ranges_walk(_, _, _)
ack_ranges_walk(l, i, pn) ==
  IF i > Len(l) THEN l
  ELSE LET curr == l[i]
           hasNext == i < Len(l)
       IN IF pn >= curr.first /\ pn <= curr.last THEN l
          ELSE IF pn > curr.last + 1 THEN InsertAt(l, i, NewSack(pn))
          ELSE IF curr.last + 1 = pn THEN [l EXCEPT ![i].last = pn]
          ELSE IF curr.first = pn + 1 THEN
                 IF hasNext /\ pn = l[i + 1].last + 1
                 THEN RemoveAt([l EXCEPT ![i + 1].last = curr.last], i)
                 ELSE [l EXCEPT ![i].first = pn]
          ELSE IF ~hasNext THEN Append(l, NewSack(pn))
          ELSE ack_ranges_walk(l, i + 1, pn)

quic_update_ack_ranges_list(l, pn) ==
  IF l = <<>> THEN <<NewSack(pn)>> ELSE ack_ranges_walk(l, 1, pn)

(***************************************************************************)
(* ACK processing of the outgoing CRYPTO descriptors.                      *)
(***************************************************************************)
RECURSIVE ack_range_walk(_, _, _, _)
ack_range_walk(T, ifcdata, node, smallest) ==
  IF node # NULL /\ node >= smallest
  THEN ack_range_walk(T \ {Frm(T, node)}, ifcdata - Frm(T, node).len,
                      eb64_prev(T, node), smallest)
  ELSE [frms |-> T, ifcdata |-> ifcdata, node |-> node]

\* the node the walk over an acknowledged range starts from
AckRangeStart(T, largest) == eb64_lookup(T, largest)

quic_ack_range_crypto_frames(T, ifcdata, largest, smallest) ==
  ack_range_walk(T, ifcdata, AckRangeStart(T, largest), smallest)

\* a variant that frees the descriptors of the gap without adding their
\* lengths to the aggregate
RECURSIVE gap_walk_nosum(_, _, _, _)
gap_walk_nosum(T, k, node, next_largest) ==
  IF node # NULL /\ node > next_largest
  THEN gap_walk_nosum(T \ {Frm(T, k)}, node, eb64_prev(T, node), next_largest)
  ELSE [frms |-> T, frm |-> k]

\* aggregation of the descriptors below <k> down to <next_largest> excluded
\* into the lowest of them: <k> is the key of the current aggregate
RECURSIVE gap_walk(_, _, _, _)
gap_walk(T, k, node, next_largest) ==
  IF node # NULL /\ node > next_largest
  THEN LET frm == Frm(T, k)
           prev_frm == Frm(T, node)
           merged == [prev_frm EXCEPT !.len = prev_frm.len + frm.len]
       IN gap_walk((T \ {frm, prev_frm}) \cup {merged}, node,
                   eb64_prev(T, node), next_largest)
  ELSE [frms |-> T, frm |-> k]

quic_ack_range_with_gap_crypto_frames(T, ifcdata, largest, smallest, next_largest) ==
  LET \* <lost> is history: the packet numbers of the aggregated descriptors
      Lost(r, g) ==
        [frms |-> g.frms,
         ifcdata |-> r.ifcdata - Frm(g.frms, g.frm).len,
         frm |-> g.frm,
         lost |-> (Keys(r.frms) \ Keys(g.frms)) \cup {g.frm}]
      Acked(r) ==
        IF r.node = NULL
        THEN [frms |-> r.frms, ifcdata |-> r.ifcdata, frm |-> NULL, lost |-> {}]
        ELSE Lost(r, gap_walk(r.frms, r.node, eb64_prev(r.frms, r.node), next_largest))
  IN Acked(quic_ack_range_crypto_frames(T, ifcdata, largest, smallest))

\* a variant that takes the gap for the number of missing packets
NextLargestGapCount(smallest, gap) == smallest - gap - 1

\* the largest packet number of the range that follows a gap
NextLargest(smallest, gap) == smallest - gap - 2

\* qc_parse_ack_frm() on [frms, rtx, ifcdata, retransmit], <ranges> being
\* the (gap, ack_range) pairs of the frame that are still to be decoded
RECURSIVE ack_frm_walk(_, _, _, _)
ack_frm_walk(s, largest, smallest, ranges) ==
  LET Last(r) == [s EXCEPT !.frms = r.frms, !.ifcdata = r.ifcdata]
      Gap(r, next_largest, ack_range) ==
        ack_frm_walk(
          IF r.frm # NULL
          THEN [s EXCEPT !.frms = r.frms \ {Frm(r.frms, r.frm)},
                         !.rtx = s.rtx \cup {Frm(r.frms, r.frm)},
                         !.ifcdata = r.ifcdata,
                         !.retransmit = 1,
                         !.lost = s.lost \cup r.lost]
          ELSE [s EXCEPT !.frms = r.frms, !.ifcdata = r.ifcdata],
          next_largest, next_largest - ack_range, Tail(ranges))
  IN IF ranges = <<>>
     THEN Last(quic_ack_range_crypto_frames(s.frms, s.ifcdata, largest, smallest))
     ELSE IF smallest < ranges[1][1] + 2 THEN [s EXCEPT !.ok = FALSE]
     ELSE IF NextLargest(smallest, ranges[1][1]) < ranges[1][2]
          THEN [s EXCEPT !.ok = FALSE]
     ELSE Gap(quic_ack_range_with_gap_crypto_frames(
                s.frms, s.ifcdata, largest, smallest,
                NextLargest(smallest, ranges[1][1])),
              NextLargest(smallest, ranges[1][1]), ranges[1][2])

\* ack = [largest_ack, first_ack_range, ranges]
qc_parse_ack_frm(ack, frms, rtx, ifcdata, retransmit, next_pn, largest_acked_pn) ==
  LET s0 == [frms |-> frms, rtx |-> rtx, ifcdata |-> ifcdata,
             retransmit |-> retransmit, ok |-> TRUE,
             largest_acked_pn |-> largest_acked_pn, lost |-> {}]
      Done(s) ==
        IF ~s.ok THEN s
        ELSE IF UGt(ack.largest_ack, largest_acked_pn)
             THEN [s EXCEPT !.largest_acked_pn = ack.largest_ack]
             ELSE s
  IN IF UGt(ack.largest_ack, next_pn) THEN [s0 EXCEPT !.ok = FALSE]
     ELSE IF ack.first_ack_range > ack.largest_ack THEN [s0 EXCEPT !.ok = FALSE]
     ELSE Done(ack_frm_walk(s0, ack.largest_ack,
                            ack.largest_ack - ack.first_ack_range, ack.ranges))

(***************************************************************************)
(* State of one connection.                                                *)
(***************************************************************************)
VARIABLES
  target,           \* conn->target: "listener" (we are the QUIC server) or "server" (we are the QUIC client)
  state,            \* ctx->state
  wait_hs,          \* conn->flags & CO_FL_SSL_WAIT_HS
  pc,               \* position of the connection tasklet: "idle" or "next_level"
  enc_level,        \* enc_level of the running qc_do_hdshk()
  next_enc_level,   \* next_enc_level of the running qc_do_hdshk()
  qel,              \* quic_conn->enc_levels[]
  pktns,            \* the packet-number space of each level
  crypto_in_flight, \* quic_conn->crypto_in_flight
  retransmit,       \* quic_conn->retransmit
  tx,               \* quic_conn->tx: bufs, wbuf, rbuf
  provided,         \* history: the (offset, len) handed to SSL_provide_quic_data() per level
  last_ack,         \* history: the last ACK frame parsed by the last tasklet step
  built,            \* history: the packets committed by the last tasklet step
  sent,             \* history: the packets accepted by the transport in the last tasklet step
  failure,          \* history: the failure of a library call met by the last tasklet step
  hdshk_ret,        \* history: what qc_do_hdshk() returned in the last step: "ok", "err", or "none" if it did not return
  tls_input,        \* history: CRYPTO data were provided since the last SSL_do_handshake()
  next_rx_pn,       \* environment: the packet number of the next packet of the peer
  nb_rcv,           \* number of packets received since the initial state
  nb_fail,          \* number of tasklet steps that met a failure of a library call so far
  nb_emit,          \* number of SSL_do_handshake() calls that added CRYPTO data so far
  h3c,              \* the mux connection (struct h3c), NULL before h3_init() and after h3_release()
  h3s,              \* the pool of struct h3s, by pointer
  app,              \* the data layer of each stream: what its buffer still holds for h3_snd_buf()
  proxy_stopped,    \* environment: h3c->proxy->state == PR_STSTOPPED
  mux_hist          \* history: what the last mux operation did, and the frames written so far

vars == <<target, state, wait_hs, pc, enc_level, next_enc_level, qel, pktns,
          crypto_in_flight, retransmit, tx, provided, last_ack, built, sent,
          failure, hdshk_ret, tls_input, next_rx_pn, nb_rcv, nb_fail, nb_emit,
          h3c, h3s, app, proxy_stopped, mux_hist>>

\* the variables of the QUIC transport and those of the mux
quicvars == <<target, state, wait_hs, pc, enc_level, next_enc_level, qel, pktns,
              crypto_in_flight, retransmit, tx, provided, last_ack, built, sent,
              failure, hdshk_ret, tls_input, next_rx_pn, nb_rcv, nb_fail, nb_emit>>

muxvars == <<h3c, h3s, app, proxy_stopped, mux_hist>>

(***************************************************************************)
(* The mux of src/src/mux_h3.c: constants and the state before h3_init().  *)
(***************************************************************************)
\* enum h3_cs: the states of a mux connection, in the order of the enum
H3_CS_PREFACE == 0
H3_CS_SETTINGS1 == 1
H3_CS_FRAME_H == 2
H3_CS_FRAME_P == 3
H3_CS_FRAME_A == 4
H3_CS_FRAME_E == 5
H3_CS_ERROR == 6
H3_CS_ERROR2 == 7

\* enum h3_ss: the states of a stream, in the order of the enum
H3_SS_IDLE == 0
H3_SS_RLOC == 1
H3_SS_RREM == 2
H3_SS_OPEN == 3
H3_SS_HREM == 4
H3_SS_HLOC == 5
H3_SS_ERROR == 6
H3_SS_CLOSED == 7

\* the largest window and the largest stream id: 0x7FFFFFFF
H3_MAX_WINDOW == 2147483647

\* number of struct h3s the pool can hold at once
MaxH3s == 2

Ptrs == 1..MaxH3s

\* a free entry of the pool of struct h3s
NoH3s == [id |-> NULL, st |-> NULL, flags |-> {}, sws |-> 0, errcode |-> "NO_ERROR",
          cs |-> FALSE, subs |-> FALSE]

\* the buffer of a data layer with nothing to send
NoApp == [sl |-> FALSE, data |-> 0, eom |-> FALSE]

\* nothing done yet by the mux
NoMuxHist == [nb_settings |-> 0, nb_wu |-> 0, goaway |-> 0, rst |-> <<>>, frames |-> <<>>,
              tx |-> [p \in Ptrs |-> 0], expired |-> FALSE, new_sid |-> NULL,
              bck_new |-> FALSE, wu_err |-> FALSE, released |-> FALSE]

\* the dummy streams of the demux, which are not in the pool
h3_closed_stream == -2

h3_error_stream == -3

h3_refused_stream == -4

h3_idle_stream == -5

\* the ctx of a connection without a mux
NoH3c == [st0 |-> NULL]

\* no mux is installed on the connection
NoMux ==
  /\ h3c = NoH3c
  /\ h3s = [p \in Ptrs |-> NoH3s]
  /\ app = [p \in Ptrs |-> NoApp]
  /\ proxy_stopped = FALSE
  /\ mux_hist = NoMuxHist

NoAck == [level |-> NULL]

\* quic_conn_enc_level_init()
quic_conn_enc_level_init ==
  [rx_secrets |-> FALSE, qpkts |-> <<>>, pqpkts |-> <<>>, rx_offset |-> 0,
   tx_sz |-> 0, tx_offset |-> 0, frms |-> {}, retransmit_frms |-> {}]

\* quic_pktns_init(); <ack_owed> is history: an ACK frame was required and
\* no committed packet has carried one since; <rcvd> is history: the packet
\* numbers of the packets that were decrypted and parsed
quic_pktns_init ==
  [next_pn |-> -1, largest_pn |-> -1, largest_acked_pn |-> -1,
   nb_ack_eliciting |-> 0, ack_ranges |-> <<>>, ack_required |-> FALSE,
   ack_owed |-> FALSE, rcvd |-> {}]

q_buf_init == [pos |-> 0, data |-> 0, pkts |-> <<>>]

\* quic_get_tls_enc_levels()
tls_enc_level(st) ==
  IF st \in {"SERVER_INITIAL", "CLIENT_INITIAL"}
  THEN QUIC_TLS_ENC_LEVEL_INITIAL ELSE QUIC_TLS_ENC_LEVEL_HANDSHAKE

tls_next_enc_level(st) ==
  IF st \in {"SERVER_INITIAL", "CLIENT_INITIAL"}
  THEN QUIC_TLS_ENC_LEVEL_HANDSHAKE ELSE QUIC_TLS_ENC_LEVEL_APP

\* no failure of the crypto library or of the allocator
NoFail == [kind |-> "none", at |-> 0]

\* the connection as one record, threaded through the steps of the tasklet
Conn ==
  [qel |-> qel, pktns |-> pktns, crypto_in_flight |-> crypto_in_flight,
   retransmit |-> retransmit, tx |-> tx, provided |-> provided,
   last_ack |-> NoAck, built |-> <<>>, sent |-> <<>>, fail |-> NoFail]

(***************************************************************************)
(* Reception: qc_lstnr_pkt_rcv() / qc_srv_pkt_rcv() and qc_try_rm_hp().    *)
(***************************************************************************)
RECURSIVE InsertPos(_, _, _)
InsertPos(s, pn, i) ==
  IF i > Len(s) \/ s[i].pn > pn THEN i ELSE InsertPos(s, pn, i + 1)

\* a variant that takes the truncated packet number for the packet number
decode_packet_number_trunc(largest_pn, truncated_pn, pn_nbits) == truncated_pn

\* decode_packet_number(); <largest_pn> is -1 as long as no packet was
\* received: the uint64_t sum largest_pn + 1 is then 0
decode_packet_number(largest_pn, truncated_pn, pn_nbits) ==
  LET expected_pn == largest_pn + 1
      pn_win == 2 ^ pn_nbits
      pn_hwin == pn_win \div 2
      candidate_pn == (expected_pn - (expected_pn % pn_win)) + truncated_pn
  IN IF candidate_pn + pn_hwin <= expected_pn THEN candidate_pn + pn_win
     ELSE IF candidate_pn > expected_pn + pn_hwin /\ candidate_pn > pn_win
     THEN candidate_pn - pn_win
     ELSE candidate_pn

\* qc_do_rm_hp(): the packet number of a packet whose header protection is
\* removed
qc_do_rm_hp(pkt, largest_pn) ==
  [pkt EXCEPT !.pn = decode_packet_number(largest_pn, pkt.truncated_pn, pkt.pnl * 8)]

\* eb64_insert() in the tree of received packets: after the equal keys
eb64_insert_pkt(s, pkt) == InsertAt(s, InsertPos(s, pkt.pn, 1), pkt)

\* a variant that does not look at the secrets of the level
qc_try_rm_hp_nosecrets(l, pkt, largest_pn) ==
  [l EXCEPT !.qpkts = eb64_insert_pkt(l.qpkts, qc_do_rm_hp(pkt, largest_pn))]

qc_try_rm_hp(l, pkt, largest_pn) ==
  IF l.rx_secrets
  THEN [l EXCEPT !.qpkts = eb64_insert_pkt(l.qpkts, qc_do_rm_hp(pkt, largest_pn))]
  ELSE [l EXCEPT !.pqpkts = Append(l.pqpkts, pkt)]

\* qc_rm_hp_pkts()
RECURSIVE qc_rm_hp_pkts(_, _)
qc_rm_hp_pkts(l, largest_pn) ==
  IF l.pqpkts = <<>> THEN l
  ELSE qc_rm_hp_pkts([l EXCEPT !.qpkts = eb64_insert_pkt(l.qpkts,
                                           qc_do_rm_hp(Head(l.pqpkts), largest_pn)),
                               !.pqpkts = Tail(l.pqpkts)],
                     largest_pn)

(***************************************************************************)
(* qc_parse_hdshk_pkt(): the frames of a decrypted long-header packet.     *)
(***************************************************************************)
ParseAck(c, el, ack) ==
  LET Parsed(r) ==
        [c |-> [c EXCEPT !.qel[el].frms = r.frms,
                         !.qel[el].retransmit_frms = r.rtx,
                         !.crypto_in_flight = r.ifcdata,
                         !.retransmit = r.retransmit,
                         !.pktns[el].largest_acked_pn = r.largest_acked_pn,
                         !.last_ack = [level |-> el, ack |-> ack, ok |-> r.ok,
                                       next_pn |-> c.pktns[el].next_pn,
                                       frms0 |-> c.qel[el].frms,
                                       rtx0 |-> c.qel[el].retransmit_frms,
                                       ifc0 |-> c.crypto_in_flight,
                                       frms1 |-> r.frms, rtx1 |-> r.rtx,
                                       ifc1 |-> r.ifcdata,
                                       retransmit1 |-> r.retransmit,
                                       lost |-> r.lost]],
         ok |-> r.ok]
  IN Parsed(qc_parse_ack_frm(ack, c.qel[el].frms, c.qel[el].retransmit_frms,
                             c.crypto_in_flight, c.retransmit,
                             c.pktns[el].next_pn, c.pktns[el].largest_acked_pn))

\* whether a CRYPTO frame is flagged as out of order
OutOfOrder(offset, rx_offset) == offset # rx_offset

RECURSIVE qc_parse_hdshk_pkt(_, _, _, _)
qc_parse_hdshk_pkt(c, el, pkt, frames) ==
  LET frm == Head(frames)
      Acked(r) == IF r.ok THEN qc_parse_hdshk_pkt(r.c, el, pkt, Tail(frames))
                  ELSE [c |-> r.c, pkt |-> pkt, ok |-> FALSE]
  IN IF frames = <<>> THEN [c |-> c, pkt |-> pkt, ok |-> TRUE]
     ELSE CASE frm.type = "CRYPTO" ->
                 qc_parse_hdshk_pkt(c, el,
                   [pkt EXCEPT !.out_of_order = pkt.out_of_order
                                  \/ OutOfOrder(frm.offset, c.qel[el].rx_offset),
                               !.crypto_offset = frm.offset,
                               !.crypto_len = frm.len,
                               !.ack_eliciting = TRUE],
                   Tail(frames))
            [] frm.type = "PADDING" ->
                 qc_parse_hdshk_pkt(c, el, pkt, Tail(frames))
            [] frm.type = "ACK" -> Acked(ParseAck(c, el, frm.ack))
            [] frm.type = "PING" ->
                 qc_parse_hdshk_pkt(c, el, [pkt EXCEPT !.ack_eliciting = TRUE],
                                    Tail(frames))
            [] frm.type = "CONNECTION_CLOSE" ->
                 qc_parse_hdshk_pkt(c, el, pkt, Tail(frames))
            [] OTHER -> [c |-> c, pkt |-> pkt, ok |-> FALSE]

(***************************************************************************)
(* qc_treat_rx_pkts(): the packets of the rx tree of a level, in pn order. *)
(***************************************************************************)
\* the space requires an ACK frame once this many ack-eliciting packets came
AckRequired(nb_ack_eliciting) == nb_ack_eliciting % 2 = 0

\* a variant that hands every CRYPTO frame over, whatever its offset
InOrderAny(crypto_offset, rx_offset) == TRUE

\* whether the CRYPTO data of a packet are handed to the TLS stack
InOrder(crypto_offset, rx_offset) == crypto_offset = rx_offset

qc_account_rx_pkt(p, pkt) ==
  LET nb == IF pkt.ack_eliciting THEN p.nb_ack_eliciting + 1 ELSE p.nb_ack_eliciting
  IN [p EXCEPT !.nb_ack_eliciting = nb,
               !.ack_required = p.ack_required
                                  \/ (pkt.ack_eliciting /\ AckRequired(nb)),
               !.ack_owed = p.ack_owed
                              \/ (pkt.ack_eliciting /\ AckRequired(nb)),
               !.largest_pn = IF UGt(pkt.pn, p.largest_pn) THEN pkt.pn
                              ELSE p.largest_pn,
               !.ack_ranges = quic_update_ack_ranges_list(p.ack_ranges, pkt.pn),
               !.rcvd = p.rcvd \cup {pkt.pn}]

RECURSIVE qc_treat_rx_pkts(_, _, _)
qc_treat_rx_pkts(c, el, i) ==
  LET \* <c1> is the connection once the packet <pkt> is parsed and accounted
      Treated(c1, pkt) ==
        IF pkt.crypto_len # 0
        THEN IF InOrder(pkt.crypto_offset, c1.qel[el].rx_offset)
             THEN IF c1.fail.kind = "provide"
                  THEN [c1 EXCEPT !.fail.kind = "provide_failed"]
                  ELSE qc_treat_rx_pkts(
                    [c1 EXCEPT
                       !.provided[el] = Append(@, <<pkt.crypto_offset, pkt.crypto_len>>),
                       !.qel[el].rx_offset = @ + pkt.crypto_len,
                       !.qel[el].qpkts = RemoveAt(@, i)],
                    el, i)
             ELSE qc_treat_rx_pkts([c1 EXCEPT !.qel[el].qpkts[i] = pkt], el, i + 1)
        ELSE qc_treat_rx_pkts([c1 EXCEPT !.qel[el].qpkts = RemoveAt(@, i)], el, i)
      Parsed(pkt0, r) ==
        IF ~r.ok
        THEN qc_treat_rx_pkts([r.c EXCEPT !.qel[el].qpkts = RemoveAt(@, i)], el, i)
        ELSE Treated(IF pkt0.out_of_order THEN r.c
                     ELSE [r.c EXCEPT !.pktns[el] = qc_account_rx_pkt(@, r.pkt)],
                     r.pkt)
      Pkt(pkt0) ==
        IF ~pkt0.out_of_order /\ ~pkt0.decrypt_ok
        THEN qc_treat_rx_pkts([c EXCEPT !.qel[el].qpkts = RemoveAt(@, i)], el, i)
        ELSE Parsed(pkt0, IF pkt0.out_of_order
                          THEN [c |-> c, pkt |-> pkt0, ok |-> TRUE]
                          ELSE qc_parse_hdshk_pkt(c, el, pkt0, pkt0.frames))
  IN IF i > Len(c.qel[el].qpkts) THEN c ELSE Pkt(c.qel[el].qpkts[i])

(***************************************************************************)
(* Output buffer ring and CRYPTO buffers.                                  *)
(***************************************************************************)
q_wbuf(c) == c.tx.bufs[c.tx.wbuf + 1]

q_rbuf(c) == c.tx.bufs[c.tx.rbuf + 1]

q_next_wbuf(c) == [c EXCEPT !.tx.wbuf = (c.tx.wbuf + 1) % QUIC_CONN_TX_BUFS_NB]

q_next_rbuf(c) == [c EXCEPT !.tx.rbuf = (c.tx.rbuf + 1) % QUIC_CONN_TX_BUFS_NB]

q_buf_empty(buf) == buf.data = 0

c_buf_consumed(l) == l.tx_offset = l.tx_sz

c_buf_remain(l, offset) == l.tx_sz - offset

\* quic_int_getsize(): the length of a variable-length integer
quic_int_getsize(v) ==
  IF v < 64 THEN 1 ELSE IF v < 16384 THEN 2 ELSE IF v < 1073741824 THEN 4 ELSE 8

\* max_stream_data_size(): the data that fit in <sz> bytes after <ilen>
\* other bytes of payload and the two length fields
max_stream_data_size(sz, ilen, dlen) ==
  IF sz <= ilen + 4 THEN 0 ELSE Min(dlen, sz - ilen - 4)

\* length of the ACK frame built by quic_do_build_ack_frame()
AckFrmLen(ranges) == 5 + 2 * (Len(ranges) - 1)

\* length of the packet number field (quic_packet_number_length())
PnLen == 1

(***************************************************************************)
(* qc_do_build_hdshk_pkt() and qc_build_hdshk_pkt().                       *)
(***************************************************************************)
\* a variant that ignores the CRYPTO data in flight
CryptoLenNoCap(crypto_len, in_flight) == crypto_len

\* the CRYPTO data a packet may carry given the CRYPTO data in flight
CryptoLenCap(crypto_len, in_flight) ==
  IF crypto_len > QUIC_CRYPTO_IN_FLIGHT_MAX - in_flight
  THEN QUIC_CRYPTO_IN_FLIGHT_MAX - in_flight ELSE crypto_len

\* whether an ACK frame is built into the packet
AckWanted(p) == p.ack_required /\ p.ack_ranges # <<>>

\* the flag of the space once the ACK frame is built
AckFlagAfterBuild(flag) == FALSE

\* a variant that never pads
PaddingLenNone(el, len) == 0

\* the padding of an Initial packet whose Length field would be <len>
PaddingLen(el, len) ==
  IF target = "server" /\ el = QUIC_TLS_ENC_LEVEL_INITIAL
     /\ len < QUIC_INITIAL_PACKET_MINLEN
  THEN QUIC_INITIAL_PACKET_MINLEN - len ELSE 0

qc_do_build_hdshk_pkt(c, el, offset, crypto_len_in) ==
  LET wbuf == q_wbuf(c)
      room0 == QUIC_PACKET_MAXLEN - wbuf.pos
      crypto_len == IF crypto_len_in # 0
                    THEN CryptoLenCap(crypto_len_in, c.crypto_in_flight) ELSE 0
      frm_header_sz == IF crypto_len_in # 0 THEN 1 + quic_int_getsize(offset) ELSE 0
      token_fields_len == IF el = QUIC_TLS_ENC_LEVEL_INITIAL THEN 1 ELSE 0
      hdr == QUIC_LONG_PACKET_MINLEN + QUIC_CID_LEN + QUIC_CID_LEN + token_fields_len
      p == c.pktns[el]
      ack == AckWanted(p)
      ack_frm_len == IF ack THEN AckFrmLen(p.ack_ranges) ELSE 0
      c1 == IF ack
            THEN [c EXCEPT !.pktns[el].ack_required = AckFlagAfterBuild(p.ack_required)]
            ELSE c
      len0 == ack_frm_len + PnLen + frm_header_sz + QUIC_TLS_TAG_LEN
      room1 == room0 - hdr
      clen == IF crypto_len # 0 THEN max_stream_data_size(room1, len0, crypto_len) ELSE 0
      len1 == IF crypto_len # 0 THEN len0 + quic_int_getsize(clen) + clen ELSE len0
      padding_len == PaddingLen(el, len1)
      len == len1 + padding_len
      \* room left for the frames once the Length and the packet number are written
      room2 == room1 - quic_int_getsize(len) - PnLen - ack_frm_len
      crypto_frm_sz == frm_header_sz + quic_int_getsize(clen) + clen
      none == [ret |-> 0, c |-> c, offset |-> offset, pkt |-> <<>>]
  IN IF crypto_len_in # 0 /\ crypto_len = 0 THEN none
     ELSE IF room0 < hdr THEN [none EXCEPT !.ret = -1]
     ELSE IF crypto_len # 0 /\ room2 < crypto_frm_sz THEN [none EXCEPT !.ret = -1, !.c = c1]
     ELSE IF padding_len # 0
             /\ room2 - (IF crypto_len # 0 THEN crypto_frm_sz ELSE 0) < padding_len
          THEN [none EXCEPT !.ret = -1, !.c = c1]
     ELSE [ret |-> hdr + len + quic_int_getsize(len) - QUIC_TLS_TAG_LEN,
           c |-> c1,
           offset |-> offset + clen,
           pkt |-> [level |-> el, pn |-> p.next_pn + 1,
                    ack |-> IF ack THEN p.ack_ranges ELSE <<>>,
                    ack_required |-> p.ack_required,
                    crypto_offset |-> offset, crypto_len |-> clen,
                    padding_len |-> padding_len, length |-> len,
                    size |-> hdr + len + quic_int_getsize(len),
                    from |-> NULL]]

\* the packet number space once a packet number is consumed
ConsumePn(next_pn) == next_pn + 1

\* <offset> is the offset of the CRYPTO stream the packet reads from; the
\* result carries the updated offset, <c.fail> the failure of the crypto
\* library or of the allocator met by this call, if any
qc_build_hdshk_pkt(c, el, offset, len) ==
  LET wb == c.tx.wbuf + 1
      pos == q_wbuf(c).pos
      failing == c.fail.at = 1
      \* the packet is encrypted: <c1> has the new position and packet number
      Encrypted(r, c1) ==
        IF failing /\ c.fail.kind = "alloc" /\ r.offset # offset
        THEN [ret |-> -2, c |-> c1, offset |-> offset]
        ELSE [ret |-> r.ret + QUIC_TLS_TAG_LEN,
              c |-> [c1 EXCEPT
                       !.qel[el].frms =
                         IF r.offset # offset
                         THEN @ \cup {[pn |-> c1.pktns[el].next_pn, offset |-> offset,
                                       len |-> r.offset - offset]}
                         ELSE @,
                       !.crypto_in_flight = @ + (r.offset - offset),
                       !.pktns[el].ack_owed = @ /\ r.pkt.ack = <<>>,
                       !.tx.bufs[wb].data = @ + r.ret + QUIC_TLS_TAG_LEN,
                       !.tx.bufs[wb].pkts = Append(@, r.pkt),
                       !.built = Append(@, r.pkt)],
              offset |-> r.offset]
      Built(r) ==
        IF r.ret <= 0 THEN [ret |-> r.ret, c |-> r.c, offset |-> offset]
        ELSE IF failing /\ c.fail.kind = "encrypt"
             THEN [ret |-> -2, c |-> r.c, offset |-> offset]
        ELSE Encrypted(r, [r.c EXCEPT
                             !.fail.at = IF @ > 0 THEN @ - 1 ELSE @,
                             !.tx.bufs[wb].pos = pos + r.ret + QUIC_TLS_TAG_LEN,
                             !.pktns[el].next_pn = ConsumePn(@)])
  IN Built(qc_do_build_hdshk_pkt(c, el, offset, len))

(***************************************************************************)
(* qc_prep_hdshk_pkts(): fresh handshake packets.                          *)
(***************************************************************************)
RECURSIVE prep_hdshk_pkts_loop(_, _, _, _)
prep_hdshk_pkts_loop(c, tel, next_tel, reuse_wbuf) ==
  LET Sent(c1) ==
        IF c_buf_consumed(c1.qel[tel]) /\ tel = QUIC_TLS_ENC_LEVEL_INITIAL
        THEN IF c_buf_consumed(c1.qel[next_tel])
             THEN prep_hdshk_pkts_loop(q_next_wbuf(c1), next_tel, next_tel, FALSE)
             ELSE prep_hdshk_pkts_loop(c1, next_tel, next_tel, TRUE)
        ELSE prep_hdshk_pkts_loop(q_next_wbuf(c1), tel, next_tel, FALSE)
      Built(r) ==
        CASE r.ret = -2 -> [c |-> r.c, ok |-> FALSE]
          [] r.ret = -1 -> prep_hdshk_pkts_loop(q_next_wbuf(r.c), tel, next_tel, FALSE)
          [] r.ret = 0 -> [c |-> r.c, ok |-> TRUE]
          [] OTHER -> Sent([r.c EXCEPT !.qel[tel].tx_offset = r.offset])
  IN IF ~(q_buf_empty(q_wbuf(c)) \/ reuse_wbuf) THEN [c |-> c, ok |-> TRUE]
     ELSE IF c_buf_consumed(c.qel[tel]) /\ ~c.pktns[tel].ack_required
          THEN [c |-> c, ok |-> TRUE]
     ELSE Built(qc_build_hdshk_pkt(c, tel, c.qel[tel].tx_offset,
                                   c_buf_remain(c.qel[tel], c.qel[tel].tx_offset)))

qc_prep_hdshk_pkts(c, st) ==
  prep_hdshk_pkts_loop(c, tls_enc_level(st), tls_next_enc_level(st), FALSE)

(***************************************************************************)
(* qc_prep_hdshk_rpkts(): packets of retransmitted CRYPTO data.            *)
(***************************************************************************)
\* a variant that forgets to advance the offset
ConsumeFrmLenOnly(frm, n) == [frm EXCEPT !.len = frm.len - n]

\* the descriptor of the retransmit tree once <n> of its bytes are sent
ConsumeFrm(frm, n) == [frm EXCEPT !.offset = frm.offset + n, !.len = frm.len - n]

\* the retransmit flag at the "out" label, <frms> being the current tree
RetransmitAtOut(flag, frms) == IF frms = {} THEN 0 ELSE flag

rpkts_out(c, tel) ==
  [c |-> [c EXCEPT !.retransmit =
             RetransmitAtOut(c.retransmit, c.qel[tel].retransmit_frms)],
   ok |-> TRUE]

RECURSIVE prep_hdshk_rpkts_loop(_, _, _, _, _)
prep_hdshk_rpkts_loop(c, tel, next_tel, node, reuse_wbuf) ==
  LET frms == c.qel[tel].retransmit_frms
      frm == Frm(frms, node)
      Sent(c1, frm1) ==
        IF frm1.len # 0
        THEN prep_hdshk_rpkts_loop(q_next_wbuf(c1), tel, next_tel, node, FALSE)
        ELSE prep_hdshk_rpkts_loop(c1, tel, next_tel, node, FALSE)
      Built(r) ==
        CASE r.ret = -2 -> [c |-> r.c, ok |-> FALSE]
          [] r.ret = -1 ->
               prep_hdshk_rpkts_loop(q_next_wbuf(r.c), tel, next_tel, node, FALSE)
          [] r.ret = 0 -> rpkts_out(r.c, tel)
          [] OTHER ->
               Sent([r.c EXCEPT !.qel[tel].retransmit_frms =
                        (frms \ {frm}) \cup {ConsumeFrm(frm, r.offset - frm.offset)},
                                !.built[Len(r.c.built)].from = node],
                    ConsumeFrm(frm, r.offset - frm.offset))
      \* <frm> is consumed and deleted: next descriptor, or next level
      Next1(c1, next) ==
        IF next = NULL /\ tel = QUIC_TLS_ENC_LEVEL_INITIAL
        THEN IF eb64_first(c1.qel[next_tel].retransmit_frms) = NULL
             THEN prep_hdshk_rpkts_loop(q_next_wbuf(c1), next_tel, next_tel, NULL, FALSE)
             ELSE prep_hdshk_rpkts_loop(c1, next_tel, next_tel,
                                        eb64_first(c1.qel[next_tel].retransmit_frms), TRUE)
        ELSE prep_hdshk_rpkts_loop(q_next_wbuf(c1), tel, next_tel, next, FALSE)
  IN IF node = NULL THEN rpkts_out(c, tel)
     ELSE IF frm.len # 0
          THEN IF ~q_buf_empty(q_wbuf(c)) /\ ~reuse_wbuf THEN rpkts_out(c, tel)
               ELSE Built(qc_build_hdshk_pkt(c, tel, frm.offset, frm.len))
          ELSE Next1([c EXCEPT !.qel[tel].retransmit_frms = frms \ {frm}],
                     eb64_next(frms, node))

qc_prep_hdshk_rpkts(c, st) ==
  prep_hdshk_rpkts_loop(c, tls_enc_level(st), tls_next_enc_level(st),
                        eb64_first(c.qel[tls_enc_level(st)].retransmit_frms), FALSE)

(***************************************************************************)
(* qc_send_ppkts(): the reader side of the ring.                           *)
(***************************************************************************)
RECURSIVE qc_send_ppkts(_, _)
qc_send_ppkts(c, snd_ok) ==
  IF q_buf_empty(q_rbuf(c)) \/ ~snd_ok THEN c
  ELSE qc_send_ppkts(
         q_next_rbuf([c EXCEPT !.sent = c.sent \o q_rbuf(c).pkts,
                               !.tx.bufs[c.tx.rbuf + 1] = q_buf_init]),
         snd_ok)

(***************************************************************************)
(* Inputs of the environment.                                              *)
(***************************************************************************)
\* lengths of the CRYPTO data the TLS stack hands over in one call
EmitLens == {100, 4200}

\* length of the CRYPTO frame of a received packet
RxCryptoLen == 50

AckFields == 0..MaxAckField

AckRangeSeqs ==
  UNION {[1..n -> AckFields \X AckFields] : n \in 0..MaxAckRanges}

\* the ACK frames of the peer: about the last packets sent, or about one
\* packet that was not sent
AckFrames(next_pn) ==
  [largest_ack : {n \in next_pn - MaxAckBack .. next_pn + 1 : n >= 0},
   first_ack_range : AckFields, ranges : AckRangeSeqs]

\* the frames of a packet received at level <l>
RxPayloads(l) ==
  {<<[type |-> "CRYPTO", offset |-> o, len |-> RxCryptoLen]>> : o \in {0, RxCryptoLen}}
  \cup {<<[type |-> "ACK", ack |-> a]>> : a \in AckFrames(pktns[l].next_pn)}
  \cup {<<[type |-> "PING"]>>, <<[type |-> "UNKNOWN"]>>}

RxLevels == {QUIC_TLS_ENC_LEVEL_INITIAL, QUIC_TLS_ENC_LEVEL_HANDSHAKE}

\* failures of the crypto library ("encrypt") or of the allocator ("alloc")
\* at the <at>-th packet built by a tasklet step, or of
\* SSL_provide_quic_data() ("provide"), or of the transport ("send")
Fails ==
  {NoFail, [kind |-> "provide", at |-> 0], [kind |-> "send", at |-> 0]}
  \cup [kind : {"encrypt", "alloc"}, at : 1..MaxFailAt]

\* what one call of SSL_do_handshake() does: the CRYPTO data it adds at the
\* Initial and Handshake levels, whether it installs the Handshake secrets,
\* and its result
TlsSteps ==
  [emit_i : {0} \cup EmitLens, emit_h : {0} \cup EmitLens,
   secrets : BOOLEAN, ret : {"want", "ok", "fatal"}]

TlsQuiet(t) == t.emit_i = 0 /\ t.emit_h = 0 /\ ~t.secrets /\ t.ret # "ok"

\* a client starts with its ClientHello; afterwards the TLS stack moves on
\* only when it was given CRYPTO data of the peer
TlsStepAllowed(t, c, input) ==
  IF target = "server" /\ nb_emit = 0
  THEN t.emit_i # 0 /\ t.emit_h = 0 /\ ~t.secrets /\ t.ret = "want"
  ELSE IF ~input THEN TlsQuiet(t)
  ELSE /\ (t.emit_i # 0 \/ t.emit_h # 0) => nb_emit < MaxEmit
       /\ t.emit_h # 0 => (t.secrets \/ c.qel[QUIC_TLS_ENC_LEVEL_HANDSHAKE].rx_secrets)
       /\ t.secrets => ~c.qel[QUIC_TLS_ENC_LEVEL_HANDSHAKE].rx_secrets
       /\ t.ret = "ok" => c.provided[QUIC_TLS_ENC_LEVEL_HANDSHAKE] # <<>>
       /\ t.ret = "fatal" => TlsQuiet(t)

(***************************************************************************)
(* Initial state: a connection after qc_conn_init() / qc_new_conn_init().  *)
(***************************************************************************)
InitQuic ==
  /\ target \in {"listener", "server"}
  /\ state = IF target = "listener" THEN "SERVER_INITIAL" ELSE "CLIENT_INITIAL"
  /\ wait_hs = TRUE
  /\ pc = "idle"
  /\ enc_level = NULL
  /\ next_enc_level = NULL
  /\ qel = [l \in Levels |->
              [quic_conn_enc_level_init EXCEPT
                 !.rx_secrets = (l = QUIC_TLS_ENC_LEVEL_INITIAL /\ target = "server")]]
  /\ pktns = [l \in Levels |-> quic_pktns_init]
  /\ crypto_in_flight = 0
  /\ retransmit = 0
  /\ tx = [bufs |-> [i \in 1..QUIC_CONN_TX_BUFS_NB |-> q_buf_init],
           wbuf |-> 0, rbuf |-> 0]
  /\ provided = [l \in Levels |-> <<>>]
  /\ last_ack = NoAck
  /\ built = <<>>
  /\ sent = <<>>
  /\ failure = NoFail
  /\ hdshk_ret = "none"
  /\ tls_input = FALSE
  /\ next_rx_pn = 0
  /\ nb_rcv = 0
  /\ nb_fail = 0
  /\ nb_emit = 0

\* the connection before any mux is installed on it
Init == InitQuic /\ NoMux

(***************************************************************************)
(* qc_lstnr_pkt_rcv() / qc_srv_pkt_rcv(): a packet of the peer arrives.    *)
(***************************************************************************)
NewRxPkt(version, truncated_pn, frames, decrypt_ok) ==
  [version |-> version, truncated_pn |-> truncated_pn, pnl |-> 1, pn |-> NULL,
   frames |-> frames, decrypt_ok |-> decrypt_ok,
   out_of_order |-> FALSE, ack_eliciting |-> FALSE,
   crypto_offset |-> 0, crypto_len |-> 0]

\* the received packets the tasklet has not looked at yet
Waiting(l) ==
  Cardinality({i \in 1..Len(qel[l].qpkts) : ~qel[l].qpkts[i].out_of_order})

\* <len_ok>: the length of the packet fits the buffer of the packet; the
\* length of a packet whose Version field is 0 is not read from the packet and
\* is the value left in the memory of the pool
PktRcv(l, version, len_ok, frames, decrypt_ok) ==
  /\ pc = "idle"
  /\ nb_rcv < MaxRcv
  /\ Waiting(QUIC_TLS_ENC_LEVEL_INITIAL) + Waiting(QUIC_TLS_ENC_LEVEL_HANDSHAKE) < MaxBurst
  /\ (target = "listener" /\ nb_rcv = 0) => l = QUIC_TLS_ENC_LEVEL_INITIAL
  /\ LET isecs == l = QUIC_TLS_ENC_LEVEL_INITIAL /\ target = "listener"
         lv == IF isecs THEN [qel[l] EXCEPT !.rx_secrets = TRUE] ELSE qel[l]
     IN qel' = [qel EXCEPT ![l] =
                  IF len_ok
                  THEN qc_try_rm_hp(lv, NewRxPkt(version, next_rx_pn % (2 ^ 8), frames,
                                                 decrypt_ok),
                                    pktns[l].largest_pn)
                  ELSE lv]
  /\ state' = IF len_ok /\ state = "SERVER_INITIAL" /\ l = QUIC_TLS_ENC_LEVEL_HANDSHAKE
              THEN "SERVER_HANDSHAKE" ELSE state
  /\ next_rx_pn' = next_rx_pn + 1
  /\ nb_rcv' = nb_rcv + 1
  /\ last_ack' = NoAck
  /\ built' = <<>>
  /\ sent' = <<>>
  /\ failure' = NoFail
  /\ hdshk_ret' = "none"
  /\ UNCHANGED muxvars
  /\ UNCHANGED <<target, wait_hs, pc, enc_level, next_enc_level, pktns,
                 crypto_in_flight, retransmit, tx, provided, tls_input, nb_fail,
                 nb_emit>>

qc_lstnr_pkt_rcv ==
  \E l \in RxLevels :
    \/ \E frames \in RxPayloads(l) : PktRcv(l, RxVersion, TRUE, frames, TRUE)
    \/ PktRcv(l, RxVersion, TRUE, <<>>, FALSE)
    \/ \E len_ok \in BOOLEAN : PktRcv(l, 0, len_ok, <<>>, FALSE)

(***************************************************************************)
(* quic_conn_io_cb() -> qc_do_hdshk(): one turn of the next_level loop.    *)
(***************************************************************************)
Commit(c) ==
  /\ qel' = c.qel
  /\ pktns' = c.pktns
  /\ crypto_in_flight' = c.crypto_in_flight
  /\ retransmit' = c.retransmit
  /\ tx' = c.tx
  /\ provided' = c.provided
  /\ last_ack' = c.last_ack
  /\ built' = c.built
  /\ sent' = c.sent

\* ha_quic_add_handshake_data() and the installation of the secrets
TlsApply(c, t) ==
  [c EXCEPT !.qel[QUIC_TLS_ENC_LEVEL_INITIAL].tx_sz = @ + t.emit_i,
            !.qel[QUIC_TLS_ENC_LEVEL_HANDSHAKE].tx_sz = @ + t.emit_h,
            !.qel[QUIC_TLS_ENC_LEVEL_HANDSHAKE].rx_secrets = @ \/ t.secrets]

\* the steps of one turn up to qc_send_ppkts(), which is left to the caller
LevelTurn(el, fail) ==
  LET Prep(r3) ==
        IF r3.ok /\ r3.c.retransmit = 0 THEN qc_prep_hdshk_pkts(r3.c, state) ELSE r3
      Treated(c2) ==
        IF c2.fail.kind = "provide_failed" THEN [c |-> c2, ok |-> FALSE]
        ELSE Prep(IF c2.retransmit # 0 THEN qc_prep_hdshk_rpkts(c2, state)
                  ELSE [c |-> c2, ok |-> TRUE])
      RmHp(c1) ==
        Treated(IF c1.qel[el].qpkts # <<>> THEN qc_treat_rx_pkts(c1, el, 1) ELSE c1)
  IN RmHp(IF qel[el].pqpkts # <<>> /\ qel[el].rx_secrets
          THEN [Conn EXCEPT !.fail = fail, !.qel[el] = qc_rm_hp_pkts(@, pktns[el].largest_pn)]
          ELSE [Conn EXCEPT !.fail = fail])

DoHdshk(el, nel, fail) ==
  \E r \in {LevelTurn(el, fail)} :
    /\ fail # NoFail => nb_fail < MaxFail
    /\ fail.kind \notin {"none", "send"} => ~r.ok
    /\ fail.kind = "send" => (r.ok /\ ~q_buf_empty(q_rbuf(r.c)))
    /\ nb_fail' = IF fail # NoFail THEN nb_fail + 1 ELSE nb_fail
    /\ failure' = fail
    /\ \E c \in {IF r.ok THEN qc_send_ppkts(r.c, fail.kind # "send") ELSE r.c} :
       LET input == tls_input \/ c.provided # provided
           more == c.qel[nel].rx_secrets
                   /\ (c.qel[nel].pqpkts # <<>> \/ c.qel[nel].qpkts # <<>>)
       IN IF ~r.ok
          THEN /\ Commit(c)
               /\ pc' = "idle" /\ enc_level' = NULL /\ next_enc_level' = NULL
               /\ tls_input' = input
               /\ hdshk_ret' = "err"
               /\ UNCHANGED muxvars
               /\ UNCHANGED <<target, state, wait_hs, next_rx_pn, nb_rcv, nb_emit>>
          ELSE IF more
          THEN /\ Commit(c)
               /\ pc' = "next_level" /\ enc_level' = nel /\ next_enc_level' = nel
               /\ state' = IF state = "CLIENT_INITIAL" THEN "CLIENT_HANDSHAKE" ELSE state
               /\ tls_input' = input
               /\ hdshk_ret' = "none"
               /\ UNCHANGED muxvars
               /\ UNCHANGED <<target, wait_hs, next_rx_pn, nb_rcv, nb_emit>>
          ELSE \E t \in TlsSteps :
               /\ TlsStepAllowed(t, c, input)
               /\ Commit(TlsApply(c, t))
               /\ pc' = "idle" /\ enc_level' = NULL /\ next_enc_level' = NULL
               /\ tls_input' = FALSE
               /\ hdshk_ret' = IF t.ret = "fatal" THEN "err" ELSE "ok"
               /\ wait_hs' = IF t.ret = "ok"
                                /\ state \in {"SERVER_HANDSHAKE", "CLIENT_HANDSHAKE"}
                             THEN FALSE ELSE wait_hs
               /\ nb_emit' = IF t.emit_i # 0 \/ t.emit_h # 0 THEN nb_emit + 1 ELSE nb_emit
               /\ UNCHANGED muxvars
               /\ UNCHANGED <<target, state, next_rx_pn, nb_rcv>>

\* the tasklet is woken up: qc_do_hdshk() from its beginning
qc_do_hdshk ==
  /\ pc = "idle"
  /\ wait_hs
  /\ target = "listener" => nb_rcv > 0
  /\ \E fail \in Fails :
       DoHdshk(tls_enc_level(state), tls_next_enc_level(state), fail)

\* qc_do_hdshk() after "goto next_level"
qc_do_hdshk_next_level ==
  /\ pc = "next_level"
  /\ \E fail \in Fails : DoHdshk(enc_level, next_enc_level, fail)

Next == qc_lstnr_pkt_rcv \/ qc_do_hdshk \/ qc_do_hdshk_next_level

Spec == Init /\ [][Next]_vars

(***************************************************************************)
(* A client in the course of a handshake: it sent the packets 0 to 8 of    *)
(* the Initial space, eight of them with 100 bytes of CRYPTO data, and the *)
(* server acknowledged the packets 0 to 4.  The packets 5 to 8 are in      *)
(* flight; the last step of the tasklet sent packet 8.                     *)
(***************************************************************************)
FrmsInFlight ==
  {[pn |-> 5 + i, offset |-> 400 + 100 * i, len |-> 100] : i \in 0..3}

LastPktSent ==
  [level |-> QUIC_TLS_ENC_LEVEL_INITIAL, pn |-> 8, ack |-> <<>>,
   ack_required |-> FALSE, crypto_offset |-> 700, crypto_len |-> 100,
   padding_len |-> 1078, length |-> 1200, size |-> 1226, from |-> NULL]

InitInFlight ==
  /\ target = "server"
  /\ state = "CLIENT_INITIAL"
  /\ wait_hs = TRUE
  /\ pc = "idle"
  /\ enc_level = NULL
  /\ next_enc_level = NULL
  /\ qel = [l \in Levels |->
              IF l = QUIC_TLS_ENC_LEVEL_INITIAL
              THEN [quic_conn_enc_level_init EXCEPT
                      !.rx_secrets = TRUE, !.rx_offset = 350,
                      !.tx_sz = 800, !.tx_offset = 800, !.frms = FrmsInFlight]
              ELSE [quic_conn_enc_level_init EXCEPT
                      !.rx_secrets = (l = QUIC_TLS_ENC_LEVEL_HANDSHAKE)]]
  /\ pktns = [l \in Levels |->
                IF l = QUIC_TLS_ENC_LEVEL_INITIAL
                THEN [quic_pktns_init EXCEPT
                        !.next_pn = 8, !.nb_ack_eliciting = 7,
                        !.ack_ranges = <<[first |-> 0, last |-> 7]>>,
                        !.rcvd = 0..7]
                ELSE quic_pktns_init]
  /\ crypto_in_flight = 400
  /\ retransmit = 0
  /\ tx = [bufs |-> [i \in 1..QUIC_CONN_TX_BUFS_NB |-> q_buf_init],
           wbuf |-> 1, rbuf |-> 1]
  /\ provided = [l \in Levels |->
                   IF l = QUIC_TLS_ENC_LEVEL_INITIAL
                   THEN [i \in 1..7 |-> <<RxCryptoLen * (i - 1), RxCryptoLen>>]
                   ELSE <<>>]
  /\ last_ack = NoAck
  /\ built = <<LastPktSent>>
  /\ sent = <<LastPktSent>>
  /\ failure = NoFail
  /\ hdshk_ret = "ok"
  /\ tls_input = FALSE
  /\ next_rx_pn = 8
  /\ nb_rcv = 0
  /\ nb_fail = 0
  /\ nb_emit = 8
  /\ NoMux

SpecInFlight == InitInFlight /\ [][Next]_vars

\* the same client, with a tasklet that keeps running between two turns of
\* the next_level loop: the loop is a sequence of instructions of one call of
\* qc_do_hdshk(), which nothing interrupts
SpecHdshkLive ==
  InitInFlight /\ [][Next]_vars /\ WF_vars(qc_do_hdshk_next_level)

(***************************************************************************)
(* A listener after its first flight: it was given the 50 bytes of CRYPTO  *)
(* data of the first Initial packet of the client, its TLS stack produced  *)
(* 4200 bytes of Initial CRYPTO data, and the tasklet built and sent the   *)
(* packets 0 to 3 with the first 4096 bytes, the limit of the data in      *)
(* flight.                                                                 *)
(***************************************************************************)
FlightPkt(pn, offset, len) ==
  [level |-> QUIC_TLS_ENC_LEVEL_INITIAL, pn |-> pn, ack |-> <<>>,
   ack_required |-> FALSE, crypto_offset |-> offset, crypto_len |-> len,
   padding_len |-> 0, length |-> len + 22 - (IF pn = 0 THEN 1 ELSE 0),
   size |-> len + 48 - (IF pn = 0 THEN 1 ELSE 0), from |-> NULL]

FlightSent ==
  <<FlightPkt(0, 0, 1205), FlightPkt(1, 1205, 1204),
    FlightPkt(2, 2409, 1204), FlightPkt(3, 3613, 483)>>

InitLstnrFlight ==
  /\ target = "listener"
  /\ state = "SERVER_INITIAL"
  /\ wait_hs = TRUE
  /\ pc = "idle"
  /\ enc_level = NULL
  /\ next_enc_level = NULL
  /\ qel = [l \in Levels |->
              IF l = QUIC_TLS_ENC_LEVEL_INITIAL
              THEN [quic_conn_enc_level_init EXCEPT
                      !.rx_secrets = TRUE, !.rx_offset = RxCryptoLen,
                      !.tx_sz = 4200, !.tx_offset = 4096,
                      !.frms = {[pn |-> FlightSent[i].pn,
                                 offset |-> FlightSent[i].crypto_offset,
                                 len |-> FlightSent[i].crypto_len] : i \in 1..4}]
              ELSE quic_conn_enc_level_init]
  /\ pktns = [l \in Levels |->
                IF l = QUIC_TLS_ENC_LEVEL_INITIAL
                THEN [quic_pktns_init EXCEPT
                        !.next_pn = 3, !.nb_ack_eliciting = 1,
                        !.ack_ranges = <<[first |-> 0, last |-> 0]>>,
                        !.rcvd = {0}]
                ELSE quic_pktns_init]
  /\ crypto_in_flight = 4096
  /\ retransmit = 0
  /\ tx = [bufs |-> [i \in 1..QUIC_CONN_TX_BUFS_NB |-> q_buf_init],
           wbuf |-> 4, rbuf |-> 4]
  /\ provided = [l \in Levels |->
                   IF l = QUIC_TLS_ENC_LEVEL_INITIAL
                   THEN <<<<0, RxCryptoLen>>>> ELSE <<>>]
  /\ last_ack = NoAck
  /\ built = FlightSent
  /\ sent = FlightSent
  /\ failure = NoFail
  /\ hdshk_ret = "ok"
  /\ tls_input = FALSE
  /\ next_rx_pn = 1
  /\ nb_rcv = 0
  /\ nb_fail = 0
  /\ nb_emit = 1
  /\ NoMux

\* the client and the listener in the course of their handshakes
SpecFlights == (InitInFlight \/ InitLstnrFlight) /\ [][Next]_vars

(***************************************************************************)
(* The list of ACK ranges on its own: packet numbers are inserted in any   *)
(* order, duplicates included, in the list of the Initial space.           *)
(***************************************************************************)
InsertPn(pn) ==
  /\ pktns' = [pktns EXCEPT
                 ![QUIC_TLS_ENC_LEVEL_INITIAL].ack_ranges =
                    quic_update_ack_ranges_list(@, pn),
                 ![QUIC_TLS_ENC_LEVEL_INITIAL].rcvd = @ \cup {pn}]
  /\ UNCHANGED muxvars
  /\ UNCHANGED <<target, state, wait_hs, pc, enc_level, next_enc_level, qel,
                 crypto_in_flight, retransmit, tx, provided, last_ack, built,
                 sent, failure, hdshk_ret, tls_input, next_rx_pn, nb_rcv, nb_fail,
                 nb_emit>>

NextAckRanges == \E pn \in 0..MaxPn : InsertPn(pn)

SpecAckRanges == Init /\ [][NextAckRanges]_vars

(***************************************************************************)
(* decode_packet_number() on its own: a client whose Initial space has     *)
(* <largest_pn> as largest packet number received removes the header       *)
(* protection of one packet.                                               *)
(***************************************************************************)
\* the largest packet numbers received: none, and values around the limits
\* of the windows of one and two bytes
LargestPns ==
  {-1, 0, 1, 126, 127, 128, 200, 255, 256, 43760, 65407, 65535, 65536, 100000}

\* the lengths in bytes of the packet number field
PnLens == {1, 2}

\* the values of the packet number field: all of them on one byte, and
\* values spread over the range on two bytes
TruncatedPns(pnl) ==
  IF pnl = 1 THEN 0 .. (2 ^ 8 - 1)
  ELSE {k * 4369 : k \in 0..15} \cup {1, 32767, 32768, 65534}

InitDecodePn ==
  /\ target = "server"
  /\ state = "CLIENT_INITIAL"
  /\ wait_hs = TRUE
  /\ pc = "idle"
  /\ enc_level = NULL
  /\ next_enc_level = NULL
  /\ qel = [l \in Levels |->
              [quic_conn_enc_level_init EXCEPT
                 !.rx_secrets = (l = QUIC_TLS_ENC_LEVEL_INITIAL)]]
  /\ \E largest_pn \in LargestPns :
       pktns = [l \in Levels |->
                  IF l = QUIC_TLS_ENC_LEVEL_INITIAL
                  THEN [quic_pktns_init EXCEPT !.largest_pn = largest_pn]
                  ELSE quic_pktns_init]
  /\ crypto_in_flight = 0
  /\ retransmit = 0
  /\ tx = [bufs |-> [i \in 1..QUIC_CONN_TX_BUFS_NB |-> q_buf_init],
           wbuf |-> 0, rbuf |-> 0]
  /\ provided = [l \in Levels |-> <<>>]
  /\ last_ack = NoAck
  /\ built = <<>>
  /\ sent = <<>>
  /\ failure = NoFail
  /\ hdshk_ret = "none"
  /\ tls_input = FALSE
  /\ next_rx_pn = 0
  /\ nb_rcv = 0
  /\ nb_fail = 0
  /\ nb_emit = 0
  /\ NoMux

\* qc_try_rm_hp() of a packet whose packet number field holds <truncated_pn>
\* on <pnl> bytes
DecodePn(truncated_pn, pnl) ==
  /\ qel[QUIC_TLS_ENC_LEVEL_INITIAL].qpkts = <<>>
  /\ qel' = [qel EXCEPT ![QUIC_TLS_ENC_LEVEL_INITIAL] =
               qc_try_rm_hp(@, [NewRxPkt(RxVersion, truncated_pn, <<>>, TRUE)
                                  EXCEPT !.pnl = pnl],
                            pktns[QUIC_TLS_ENC_LEVEL_INITIAL].largest_pn)]
  /\ nb_rcv' = nb_rcv + 1
  /\ UNCHANGED muxvars
  /\ UNCHANGED <<target, state, wait_hs, pc, enc_level, next_enc_level, pktns,
                 crypto_in_flight, retransmit, tx, provided, last_ack, built,
                 sent, failure, hdshk_ret, tls_input, next_rx_pn, nb_fail, nb_emit>>

NextDecodePn == \E pnl \in PnLens : \E truncated_pn \in TruncatedPns(pnl) :
                  DecodePn(truncated_pn, pnl)

SpecDecodePn == InitDecodePn /\ [][NextDecodePn]_vars

(***************************************************************************)
(* The mux (src/src/mux_h3.c).  The operators below thread a record <M>:   *)
(*   M.c  the struct h3c, with its three lists and its tree of streams,    *)
(*   M.s  the pool of struct h3s by pointer,                               *)
(*   M.g  the history of what was written.                                 *)
(* The lists hold pointers in list order; the tree is the set of the       *)
(* pointers it holds (its order is the one of the ids).  The transport is  *)
(* taken as healthy (neither CO_FL_ERROR nor a pending read0), and         *)
(* h3c->msi is never assigned by the code, so that h3c_mux_busy() is       *)
(* always false.  h3c->mbuf is reduced to br_data(h3c->mbuf).              *)
(***************************************************************************)
H3_CF_MUX_BLOCK_ANY == {"MUX_MALLOC", "MUX_MFULL"}

H3_SF_BLK_ANY == {"BLK_MBUSY", "BLK_MROOM", "BLK_MFCTL", "BLK_SFCTL"}

\* initial value of tune.h3.max-concurrent-streams, lowered to the size of the pool
h3_settings_max_concurrent_streams == MaxH3s

IsEmpty(M) == M.c.streams_by_id = {}

LIST_ISEMPTY(l) == l = <<>>

InSeq(l, p) == \E i \in 1..Len(l) : l[i] = p

\* LIST_ADDED(&h3s->list)
LIST_ADDED(M, p) ==
  InSeq(M.c.send_list, p) \/ InSeq(M.c.fctl_list, p) \/ InSeq(M.c.blocked_list, p)

Unlink(l, p) == SelectSeq(l, LAMBDA x : x # p)

\* LIST_DEL_INIT(&h3s->list)
LIST_DEL_INIT(M, p) ==
  [M EXCEPT !.c.send_list = Unlink(@, p), !.c.fctl_list = Unlink(@, p),
            !.c.blocked_list = Unlink(@, p)]

\* LIST_ADDQ(&h3c-><list>, &h3s->list)
LIST_ADDQ(M, list, p) ==
  IF list = "send_list" THEN [M EXCEPT !.c.send_list = Append(@, p)]
  ELSE IF list = "fctl_list" THEN [M EXCEPT !.c.fctl_list = Append(@, p)]
  ELSE [M EXCEPT !.c.blocked_list = Append(@, p)]

\* h3c_st_by_id(): the stream of id <id> in the tree, NULL if there is none
h3c_st_by_id(M, id) ==
  IF \E p \in M.c.streams_by_id : M.s[p].id = id
  THEN CHOOSE p \in M.c.streams_by_id : M.s[p].id = id
  ELSE NULL

\* a + b in 32-bit signed arithmetic: the sum wraps around when it overflows
Add32(a, b) ==
  IF b > 0 /\ a > H3_MAX_WINDOW - b THEN (a - H3_MAX_WINDOW) + (b - H3_MAX_WINDOW) - 2
  ELSE IF b < 0 /\ a < (-H3_MAX_WINDOW - 1) - b
  THEN (a + H3_MAX_WINDOW) + (b + H3_MAX_WINDOW) + 2
  ELSE a + b

\* h3s_mws()
h3s_mws(M, p) == Add32(M.s[p].sws, M.c.miw)

\* h3c_error()
h3c_error(M, err) == [M EXCEPT !.c.errcode = err, !.c.st0 = H3_CS_ERROR]

\* h3s_error()
h3s_error(M, p, err) ==
  IF M.s[p].id # 0 /\ M.s[p].st # H3_SS_ERROR
  THEN [M EXCEPT !.s[p].errcode = err,
                 !.s[p].st = IF @ < H3_SS_ERROR THEN H3_SS_ERROR ELSE @]
  ELSE M

\* h3s_notify_send()
h3s_notify_send(M, p) ==
  IF M.s[p].subs
  THEN [M EXCEPT !.s[p].flags = @ \cup {"NOTIFIED"}, !.s[p].subs = FALSE]
  ELSE M

\* h3c_may_expire() that holds only for a connection with no stream, no
\* buffered output and no stream in a list
h3c_may_expire_idle(M) ==
  /\ IsEmpty(M)
  /\ ~M.c.mbuf
  /\ LIST_ISEMPTY(M.c.blocked_list)
  /\ LIST_ISEMPTY(M.c.fctl_list)
  /\ LIST_ISEMPTY(M.c.send_list)

\* h3c_may_expire()
h3c_may_expire(M) ==
  \/ IsEmpty(M)
  \/ M.c.mbuf
  \/ ~LIST_ISEMPTY(M.c.blocked_list)
  \/ ~LIST_ISEMPTY(M.c.fctl_list)
  \/ ~LIST_ISEMPTY(M.c.send_list)

\* h3c_is_dead(): conn->owner is the session of a frontend connection, and
\* a backend connection keeps its owner here
h3c_is_dead(M) ==
  /\ IsEmpty(M)
  /\ \/ (M.c.st0 >= H3_CS_ERROR /\ ~M.c.task)
     \/ (~M.c.mbuf /\ M.c.last_sid >= 0 /\ M.c.max_id >= M.c.last_sid)

\* (unsigned int)(a - b) / 2, for a >= 0 and b >= -1
HalfDiff(a, b) ==
  IF b < 0 THEN (a \div 2) + (((a % 2) - b) \div 2)
  ELSE IF a >= b THEN (a - b) \div 2
  ELSE H3_MAX_WINDOW + (((a - b) \div 2) + 1)

\* h3_streams_left()
h3_streams_left(M) ==
  LET ret == HalfDiff(IF M.c.last_sid >= 0 THEN M.c.last_sid ELSE H3_MAX_WINDOW,
                      M.c.max_id) - M.c.nb_reserved - 1
  IN IF ret < 0 THEN 0 ELSE ret

\* h3c_get_next_sid()
h3c_get_next_sid(M) ==
  LET id == IF M.c.max_id % 2 = 0 THEN M.c.max_id + 1 ELSE M.c.max_id + 2
  IN IF id < 0 \/ (M.c.last_sid >= 0 /\ id > M.c.last_sid) THEN -1 ELSE id

\* h3s_close() that counts the stream out on every call
h3s_close_always(M, p) ==
  [M EXCEPT !.c.nb_streams = @ - 1,
            !.c.nb_reserved = IF M.s[p].id = 0 THEN @ - 1 ELSE @,
            !.s[p].st = H3_SS_CLOSED]

\* h3s_close()
h3s_close(M, p) ==
  LET M1 == IF M.s[p].st # H3_SS_CLOSED
            THEN [M EXCEPT !.c.nb_streams = @ - 1,
                           !.c.nb_reserved = IF M.s[p].id = 0 THEN @ - 1 ELSE @]
            ELSE M
  IN [M1 EXCEPT !.s[p].st = H3_SS_CLOSED]

\* h3s_destroy()
h3s_destroy(M, p) ==
  LET M1 == LIST_DEL_INIT(h3s_close(M, p), p)
  IN [M1 EXCEPT !.c.streams_by_id = @ \ {p}, !.s[p] = NoH3s]

\* pool_alloc(pool_head_h3s): a free entry of the pool, NULL if the pool is exhausted
pool_alloc(M) ==
  IF \E p \in Ptrs : M.s[p].st = NULL
  THEN CHOOSE p \in Ptrs : M.s[p].st = NULL /\ \A q \in Ptrs : M.s[q].st = NULL => p <= q
  ELSE NULL

\* h3s_new(): <p> is the entry the pool returned
h3s_new(M, p, id) ==
  [M EXCEPT !.s[p] = [id |-> id, st |-> H3_SS_IDLE, flags |-> {}, sws |-> 0,
                      errcode |-> "NO_ERROR", cs |-> FALSE, subs |-> FALSE],
            !.c.max_id = IF id > 0 THEN id ELSE @,
            !.c.nb_reserved = IF id > 0 THEN @ ELSE @ + 1,
            !.c.streams_by_id = @ \cup {p},
            !.c.nb_streams = @ + 1,
            !.g.tx[p] = 0]

\* h3c_frt_stream_new(): NULL (and <M> unchanged) when the stream cannot be created
h3c_frt_stream_new(M, id) ==
  LET p == pool_alloc(M)
  IN IF M.c.nb_streams >= h3_settings_max_concurrent_streams \/ p = NULL
     THEN [M |-> M, h3s |-> NULL]
     ELSE [M |-> [h3s_new(M, p, id) EXCEPT !.s[p].cs = TRUE, !.c.nb_cs = @ + 1],
           h3s |-> p]

\* h3c_bck_stream_new()
h3c_bck_stream_new(M) ==
  LET p == pool_alloc(M)
  IN IF M.c.nb_streams >= M.c.streams_limit \/ h3_streams_left(M) < 1 \/ p = NULL
     THEN [M |-> M, h3s |-> NULL]
     ELSE [M |-> [h3s_new(M, p, 0) EXCEPT !.s[p].cs = TRUE, !.c.nb_cs = @ + 1],
           h3s |-> p]

\* h3_release(): the mux and what it holds are freed
h3_release(M) ==
  [M EXCEPT !.c = NoH3c, !.s = [p \in Ptrs |-> NoH3s], !.g.released = TRUE]

\* the dummy streams h3_closed_stream, h3_error_stream, h3_refused_stream and h3_idle_stream
Dummy ==
  (h3_closed_stream :> [NoH3s EXCEPT !.id = 0, !.st = H3_SS_CLOSED,
                                     !.errcode = "STREAM_CLOSED", !.flags = {"RST_RCVD"}])
  @@ (h3_error_stream :> [NoH3s EXCEPT !.id = 0, !.st = H3_SS_CLOSED,
                                       !.errcode = "PROTOCOL_ERROR"])
  @@ (h3_refused_stream :> [NoH3s EXCEPT !.id = 0, !.st = H3_SS_CLOSED,
                                         !.errcode = "REFUSED_STREAM"])
  @@ (h3_idle_stream :> [NoH3s EXCEPT !.id = 0, !.st = H3_SS_IDLE,
                                      !.errcode = "STREAM_CLOSED"])

IsDummy(h) == h < NULL

\* the struct h3s behind <h>, a pointer of the pool or a dummy stream
Deref(M, h) == IF IsDummy(h) THEN Dummy[h] ELSE M.s[h]

(***************************************************************************)
(* Writing frames.  <M.room> is what the buffer allocator and the ring of  *)
(* output buffers answer during the running handler:                       *)
(*   "ok"      the frame fits,                                             *)
(*   "malloc"  h3_get_buf() returns no buffer,                             *)
(*   "mfull"   the tail is full and br_tail_add() finds no free slot,      *)
(*   "trunc"   the tail has room for a frame header and TruncRoom bytes of *)
(*             payload, and br_tail_add() then gives an empty buffer.      *)
(* A frame larger than an empty buffer (b_istput() < 0) does not exist:    *)
(* the frames written here have at most 17 bytes.                          *)
(***************************************************************************)
\* room left for a payload in the tail buffer when it is nearly full
TruncRoom == 1000

Rooms(M) == IF M.c.mbuf THEN {"ok", "malloc", "mfull", "trunc"} ELSE {"ok", "malloc"}

\* h3_get_buf() / b_istput() / br_tail_add(): "ok" when the frame is written
PutFrame(M) == IF M.room \in {"malloc", "mfull"} THEN M.room ELSE "ok"

BlockFlag(r) == IF r = "malloc" THEN "MUX_MALLOC" ELSE "MUX_MFULL"

\* h3c_send_goaway_error() that does not look at H3_CF_GOAWAY_FAILED
h3c_send_goaway_error_retry(M) ==
  LET M1 == IF M.c.last_sid < 0 THEN [M EXCEPT !.c.last_sid = M.c.max_id] ELSE M
      r == PutFrame(M1)
  IN IF r # "ok"
     THEN [M |-> [M1 EXCEPT !.c.flags = @ \cup {BlockFlag(r), "DEM_MROOM"}], ret |-> 0]
     ELSE [M |-> [M1 EXCEPT !.c.mbuf = TRUE, !.c.flags = @ \cup {"GOAWAY_SENT"},
                            !.g.goaway = @ + 1],
           ret |-> 1]

\* h3c_send_goaway_error(h3c, NULL)
h3c_send_goaway_error(M) ==
  IF "GOAWAY_FAILED" \in M.c.flags THEN [M |-> M, ret |-> 1]
  ELSE LET M1 == IF M.c.last_sid < 0 THEN [M EXCEPT !.c.last_sid = M.c.max_id] ELSE M
           r == PutFrame(M1)
       IN IF r # "ok"
          THEN [M |-> [M1 EXCEPT !.c.flags = @ \cup {BlockFlag(r), "DEM_MROOM"}], ret |-> 0]
          ELSE [M |-> [M1 EXCEPT !.c.mbuf = TRUE, !.c.flags = @ \cup {"GOAWAY_SENT"},
                                 !.g.goaway = @ + 1],
                ret |-> 1]

\* h3s_send_rst_stream(): <dft> is the type of the frame being demuxed on <dsi>
h3s_send_rst_stream(M, p) ==
  IF M.s[p].st = H3_SS_CLOSED THEN [M |-> M, ret |-> 1]
  ELSE IF M.c.dsi = M.s[p].id /\ M.c.dft = "RST_STREAM"
  THEN [M |-> h3s_close([M EXCEPT !.s[p].flags = @ \cup {"RST_SENT"}], p), ret |-> 1]
  ELSE LET r == PutFrame(M)
       IN IF r # "ok"
          THEN [M |-> [M EXCEPT !.c.flags = @ \cup {BlockFlag(r)},
                                !.s[p].flags = @ \cup {"BLK_MROOM"}], ret |-> 0]
          ELSE [M |-> h3s_close([M EXCEPT !.c.mbuf = TRUE,
                                          !.s[p].flags = @ \cup {"RST_SENT"},
                                          !.g.rst = Append(@, [id |-> M.s[p].id,
                                                               errcode |-> M.s[p].errcode])],
                                p),
                ret |-> 1]

\* h3c_send_rst_stream(): the stream being demuxed is <p>
h3c_send_rst_stream(M, p) ==
  LET Done(M1) == IF Deref(M1, p).id # 0
                  THEN h3s_close([M1 EXCEPT !.s[p].flags = @ \cup {"RST_SENT"}], p)
                  ELSE M1
  IN IF M.c.dft = "RST_STREAM" THEN [M |-> Done(M), ret |-> 1]
     ELSE LET r == PutFrame(M)
          IN IF r # "ok"
             THEN [M |-> [M EXCEPT !.c.flags = @ \cup {BlockFlag(r), "DEM_MROOM"}], ret |-> 0]
             ELSE [M |-> Done([M EXCEPT !.c.mbuf = TRUE,
                                        !.g.rst = Append(@, [id |-> M.c.dsi,
                                                             errcode |-> Deref(M, p).errcode])]),
                   ret |-> 1]

(***************************************************************************)
(* The demux.  The demux buffer h3c->dbuf holds at most one frame, a       *)
(* record [ft, sid, arg]; <M.c.dbuf> is NoFrame when the buffer is empty.  *)
(* The frames of the model: the connection preface ("PREFACE"), SETTINGS   *)
(* with one SETTINGS_INITIAL_WINDOW_SIZE of value <arg>, WINDOW_UPDATE of  *)
(* increment <arg>, HEADERS opening stream <sid>, RST_STREAM, GOAWAY of    *)
(* last stream <arg>, and an out-of-sequence CONTINUATION.                 *)
(***************************************************************************)
NoFrame == [ft |-> "none", sid |-> 0, arg |-> 0]

\* h3c_st_by_id() as the demux uses it, dummy streams included
DemuxStream(M, id) ==
  IF id = 0 THEN h3_closed_stream
  ELSE IF id > M.c.max_id THEN h3_idle_stream
  ELSE IF h3c_st_by_id(M, id) = NULL THEN h3_closed_stream
  ELSE h3c_st_by_id(M, id)

\* h3c_unblock_sfctl()
RECURSIVE UnblockSfctl(_, _)
UnblockSfctl(M, todo) ==
  IF todo = {} THEN M
  ELSE LET p == CHOOSE x \in todo : \A y \in todo : M.s[x].id <= M.s[y].id
           M1 == IF "BLK_SFCTL" \in M.s[p].flags /\ h3s_mws(M, p) > 0
                 THEN LET M2 == LIST_DEL_INIT([M EXCEPT !.s[p].flags = @ \ {"BLK_SFCTL"}], p)
                      IN IF M.s[p].subs \/ M.s[p].flags \cap {"WANT_SHUTR", "WANT_SHUTW"} # {}
                         THEN LIST_ADDQ(M2, "send_list", p)
                         ELSE M2
                 ELSE M
       IN UnblockSfctl(M1, todo \ {p})

\* h3c_unblock_sfctl(): the walk of the tree is UnblockSfctl()
h3c_unblock_sfctl(M) == UnblockSfctl(M, M.c.streams_by_id)

\* h3c_handle_settings(): [M, ret]
h3c_handle_settings(M) ==
  LET arg == M.c.dbuf.arg
  IN IF arg < 0 THEN [M |-> h3c_error(M, "FLOW_CONTROL_ERROR"), ret |-> 0]
     ELSE [M |-> [M EXCEPT !.c.miw = arg, !.c.st0 = H3_CS_FRAME_A], ret |-> 1]

\* h3c_ack_settings()
h3c_ack_settings(M) ==
  LET r == PutFrame(M)
  IN IF r # "ok"
     THEN [M |-> [M EXCEPT !.c.flags = @ \cup {BlockFlag(r), "DEM_MROOM"}], ret |-> 0]
     ELSE [M |-> [M EXCEPT !.c.mbuf = TRUE], ret |-> 1]

\* h3c_send_settings()
h3c_send_settings(M) == h3c_ack_settings(M)

\* a + b < 0 in 32-bit signed arithmetic, for a >= 0
AddOverflows(a, b) == Add32(a, b) < 0

\* h3c_handle_window_update() that takes every WINDOW_UPDATE for the connection
\* and lets it credit and wake the first blocked stream too
h3c_handle_window_update_conn(M, h) ==
  LET inc == M.c.dbuf.arg
      Wake(M1) ==
        IF M1.c.blocked_list = <<>> THEN M1
        ELSE LET p == Head(M1.c.blocked_list)
             IN LIST_ADDQ(LIST_DEL_INIT([M1 EXCEPT !.s[p].flags = @ \ {"BLK_SFCTL"},
                                                   !.s[p].sws = Add32(@, inc)], p),
                          "send_list", p)
  IN [M |-> Wake([M EXCEPT !.c.mws = Add32(@, inc)]), ret |-> 1]

\* h3c_handle_window_update(): <h> is the stream of the frame
h3c_handle_window_update(M, h) ==
  LET inc == M.c.dbuf.arg
  IN IF M.c.dsi # 0
     THEN IF Deref(M, h).st = H3_SS_CLOSED THEN [M |-> M, ret |-> 1]
          ELSE IF inc = 0
          THEN [M |-> [h3s_error(M, h, "PROTOCOL_ERROR") EXCEPT !.c.st0 = H3_CS_FRAME_E],
                ret |-> 0]
          ELSE IF h3s_mws(M, h) >= 0 /\ AddOverflows(h3s_mws(M, h), inc)
          THEN [M |-> [h3s_error([M EXCEPT !.g.wu_err = TRUE], h, "FLOW_CONTROL_ERROR")
                         EXCEPT !.c.st0 = H3_CS_FRAME_E],
                ret |-> 0]
          ELSE LET M1 == [M EXCEPT !.s[h].sws = Add32(@, inc)]
               IN IF h3s_mws(M1, h) > 0 /\ "BLK_SFCTL" \in M1.s[h].flags
                  THEN LET M2 == LIST_DEL_INIT([M1 EXCEPT !.s[h].flags = @ \ {"BLK_SFCTL"}], h)
                       IN [M |-> IF M1.s[h].subs
                                    \/ M1.s[h].flags \cap {"WANT_SHUTR", "WANT_SHUTW"} # {}
                                 THEN LIST_ADDQ(M2, "send_list", h)
                                 ELSE M2,
                           ret |-> 1]
                  ELSE [M |-> M1, ret |-> 1]
     ELSE IF inc = 0 THEN [M |-> h3c_error(M, "PROTOCOL_ERROR"), ret |-> 0]
          ELSE IF M.c.mws >= 0 /\ AddOverflows(M.c.mws, inc)
          THEN [M |-> h3c_error([M EXCEPT !.g.wu_err = TRUE], "FLOW_CONTROL_ERROR"), ret |-> 0]
          ELSE [M |-> [M EXCEPT !.c.mws = Add32(@, inc)], ret |-> 1]

\* h3s_alert(): the wake() callback of the data layer changes nothing in the mux
h3s_alert(M, p) ==
  IF M.s[p].subs \/ M.s[p].flags \cap {"WANT_SHUTR", "WANT_SHUTW"} # {}
  THEN h3s_notify_send(M, p)
  ELSE M

\* h3s_wake_one_stream()
h3s_wake_one_stream(M, p) ==
  IF ~M.s[p].cs THEN h3s_destroy(M, p)
  ELSE LET err == \/ M.c.st0 >= H3_CS_ERROR
                  \/ (M.c.last_sid > 0 /\ (M.s[p].id = 0 \/ M.s[p].id > M.c.last_sid))
           M1 == IF err /\ M.s[p].st < H3_SS_ERROR
                 THEN [M EXCEPT !.s[p].st = H3_SS_ERROR]
                 ELSE M
       IN h3s_alert(M1, p)

RECURSIVE WakeStreams(_, _)
WakeStreams(M, todo) ==
  IF todo = {} THEN M
  ELSE LET p == CHOOSE x \in todo :
                  \A y \in todo : M.s[x].id < M.s[y].id \/ (M.s[x].id = M.s[y].id /\ x <= y)
       IN WakeStreams(h3s_wake_one_stream(M, p), todo \ {p})

\* h3_wake_some_streams(): the streams of id above <last>, then those without an id
h3_wake_some_streams(M, last) ==
  LET M1 == WakeStreams(M, {p \in M.c.streams_by_id : M.s[p].id > last})
  IN WakeStreams(M1, {p \in M1.c.streams_by_id : M1.s[p].id = 0})

\* h3c_handle_goaway()
h3c_handle_goaway(M) ==
  LET last == M.c.dbuf.arg
      M1 == [M EXCEPT !.c.errcode = "NO_ERROR",
                      !.c.last_sid = IF @ < 0 THEN last ELSE @]
  IN [M |-> h3_wake_some_streams(M1, last), ret |-> 1]

\* h3c_handle_rst_stream()
h3c_handle_rst_stream(M, h) ==
  LET Alert(M1) == IF M1.s[h].cs THEN h3s_alert(M1, h) ELSE M1
  IN IF Deref(M, h).st = H3_SS_CLOSED THEN [M |-> M, ret |-> 1]
     ELSE [M |-> [Alert(h3s_close([M EXCEPT !.s[h].errcode = "CANCEL"], h))
                    EXCEPT !.s[h].flags = @ \cup {"RST_RCVD"}],
           ret |-> 1]

\* the end of h3c_frt_handle_headers(): END_STREAM (<arg> = 1) half-closes the stream
HeadersDone(M, p) ==
  IF M.c.dbuf.arg = 1
  THEN LET M1 == [M EXCEPT !.s[p].flags = @ \cup {"ES_RCVD"}]
       IN IF M1.s[p].st = H3_SS_OPEN THEN [M1 EXCEPT !.s[p].st = H3_SS_HREM]
          ELSE h3s_close(M1, p)
  ELSE M

\* h3c_frt_handle_headers() that does not check the parity of the id of a new stream
h3c_frt_handle_headers_any(M, h) ==
  LET New(n) ==
        IF n.h3s = NULL
        THEN [M |-> [M EXCEPT !.c.st0 = H3_CS_FRAME_E], h3s |-> h3_refused_stream, ret |-> 1]
        ELSE [M |-> HeadersDone([n.M EXCEPT !.s[n.h3s].st = H3_SS_OPEN,
                                            !.g.new_sid = M.c.dsi], n.h3s),
              h3s |-> n.h3s, ret |-> 1]
  IN IF Deref(M, h).st # H3_SS_IDLE
     THEN IF Deref(M, h).st # H3_SS_CLOSED
          THEN [M |-> HeadersDone(M, h), h3s |-> h, ret |-> 1]
          ELSE [M |-> [M EXCEPT !.c.st0 = H3_CS_FRAME_E], h3s |-> h3_error_stream, ret |-> 1]
     ELSE IF M.c.dsi <= M.c.max_id
     THEN [M |-> h3c_error(M, "PROTOCOL_ERROR"), h3s |-> h, ret |-> 0]
     ELSE New(h3c_frt_stream_new(M, M.c.dsi))

\* h3c_frt_handle_headers(): [M, h3s, ret]; the headers always decode
h3c_frt_handle_headers(M, h) ==
  LET New(n) ==
        IF n.h3s = NULL
        THEN [M |-> [M EXCEPT !.c.st0 = H3_CS_FRAME_E], h3s |-> h3_refused_stream, ret |-> 1]
        ELSE [M |-> HeadersDone([n.M EXCEPT !.s[n.h3s].st = H3_SS_OPEN,
                                            !.g.new_sid = M.c.dsi], n.h3s),
              h3s |-> n.h3s, ret |-> 1]
  IN IF Deref(M, h).st # H3_SS_IDLE
     THEN IF Deref(M, h).st # H3_SS_CLOSED
          THEN [M |-> HeadersDone(M, h), h3s |-> h, ret |-> 1]
          ELSE [M |-> [M EXCEPT !.c.st0 = H3_CS_FRAME_E], h3s |-> h3_error_stream, ret |-> 1]
     ELSE IF M.c.dsi <= M.c.max_id \/ M.c.dsi % 2 = 0
     THEN [M |-> h3c_error(M, "PROTOCOL_ERROR"), h3s |-> h, ret |-> 0]
     ELSE New(h3c_frt_stream_new(M, M.c.dsi))

\* h3c_bck_handle_headers(): [M, h3s, ret]; the headers always decode
h3c_bck_handle_headers(M, h) ==
  IF Deref(M, h).st = H3_SS_CLOSED
  THEN [M |-> [M EXCEPT !.c.st0 = H3_CS_FRAME_E], h3s |-> h3_error_stream, ret |-> 1]
  ELSE IF Deref(M, h).st \notin {H3_SS_OPEN, H3_SS_HLOC}
  THEN [M |-> [(IF IsDummy(h) THEN M ELSE h3s_error(M, h, "STREAM_CLOSED"))
                 EXCEPT !.c.st0 = H3_CS_FRAME_E],
        h3s |-> h, ret |-> 0]
  ELSE IF M.c.dbuf.arg = 1
  THEN LET M1 == [M EXCEPT !.s[h].flags = @ \cup {"ES_RCVD"}]
       IN [M |-> IF M1.s[h].st = H3_SS_OPEN THEN [M1 EXCEPT !.s[h].st = H3_SS_HREM]
                 ELSE h3s_close(M1, h),
           h3s |-> h, ret |-> 1]
  ELSE [M |-> M, h3s |-> h, ret |-> 1]

\* h3_frame_check_vs_state(): [M, ret]
h3_frame_check_vs_state(M, h) ==
  LET st == Deref(M, h).st
      dft == M.c.dft
      hdr == dft \in {"HEADERS", "CONTINUATION"}
  IN IF st = H3_SS_IDLE /\ dft # "HEADERS"
     THEN [M |-> h3c_error(M, "PROTOCOL_ERROR"), ret |-> 0]
     ELSE IF st = H3_SS_IDLE /\ "IS_BACK" \in M.c.flags
     THEN [M |-> h3c_error(M, "PROTOCOL_ERROR"), ret |-> 0]
     ELSE IF st = H3_SS_HREM /\ dft \notin {"WINDOW_UPDATE", "RST_STREAM"}
     THEN [M |-> IF hdr THEN h3c_error(M, "PROTOCOL_ERROR")
                 ELSE h3s_error(M, h, "STREAM_CLOSED"),
           ret |-> 0]
     ELSE IF st = H3_SS_CLOSED /\ M.c.dsi # 0
     THEN IF "IS_BACK" \notin M.c.flags /\ hdr
          THEN [M |-> h3c_error(M, "STREAM_CLOSED"), ret |-> 0]
          ELSE IF "RST_RCVD" \in Deref(M, h).flags
                  /\ ~hdr /\ dft \notin {"RST_STREAM", "WINDOW_UPDATE"}
          THEN [M |-> [(IF IsDummy(h) THEN M ELSE h3s_error(M, h, "STREAM_CLOSED"))
                         EXCEPT !.c.st0 = H3_CS_FRAME_E],
                ret |-> 0]
          ELSE IF Deref(M, h).id # 0 /\ "RST_SENT" \notin Deref(M, h).flags
                  /\ dft \notin {"RST_STREAM", "WINDOW_UPDATE"}
          THEN [M |-> h3c_error(M, "STREAM_CLOSED"), ret |-> 0]
          ELSE [M |-> M, ret |-> 1]
     ELSE [M |-> M, ret |-> 1]

\* the switch of h3_process_demux() on the type of the frame: [M, h3s, ret]
DemuxFrame(M, h) ==
  LET dft == M.c.dft
      With(r) == [M |-> r.M, h3s |-> h, ret |-> r.ret]
      Ack(r) == IF r.M.c.st0 = H3_CS_FRAME_A THEN With(h3c_ack_settings(r.M)) ELSE With(r)
  IN IF dft = "SETTINGS"
     THEN Ack(IF M.c.st0 = H3_CS_FRAME_P THEN h3c_handle_settings(M)
              ELSE [M |-> M, ret |-> 0])
     ELSE IF M.c.st0 # H3_CS_FRAME_P THEN [M |-> M, h3s |-> h, ret |-> 0]
     ELSE IF dft = "WINDOW_UPDATE" THEN With(h3c_handle_window_update(M, h))
     ELSE IF dft = "CONTINUATION"
     THEN [M |-> h3c_error(M, "PROTOCOL_ERROR"), h3s |-> h, ret |-> -1]
     ELSE IF dft = "HEADERS"
     THEN IF "IS_BACK" \in M.c.flags THEN h3c_bck_handle_headers(M, h)
          ELSE h3c_frt_handle_headers(M, h)
     ELSE IF dft = "RST_STREAM" THEN With(h3c_handle_rst_stream(M, h))
     ELSE With(h3c_handle_goaway(M))

\* h3_process_demux() from the point where the frame header was read: the
\* checks against the state of the stream, the handler, then strm_err:
DemuxPayload(M) ==
  LET Finish(e) ==
        IF e.ret <= 0 THEN e.M
        ELSE IF e.M.c.st0 # H3_CS_FRAME_H
        THEN [e.M EXCEPT !.c.dbuf = NoFrame, !.c.st0 = H3_CS_FRAME_H,
                         !.c.dsi = -1, !.c.dft = "none"]
        ELSE [e.M EXCEPT !.c.dbuf = NoFrame]
      StrmErr(M1, h, ret) ==
        Finish(IF M1.c.st0 = H3_CS_FRAME_E THEN h3c_send_rst_stream(M1, h)
               ELSE [M |-> M1, ret |-> ret])
      Handled(r) ==
        IF r.ret < 0 THEN r.M  \* goto fail
        ELSE StrmErr(IF Deref(r.M, r.h3s).st = H3_SS_ERROR
                     THEN [r.M EXCEPT !.c.st0 = H3_CS_FRAME_E]
                     ELSE r.M,
                     r.h3s, r.ret)
      Checked(h0, chk) ==
        Handled(IF M.c.st0 = H3_CS_FRAME_E \/ chk.ret = 0
                THEN [M |-> chk.M, h3s |-> h0, ret |-> 0]
                ELSE DemuxFrame(M, h0))
      Stream(h0) ==
        Checked(h0, IF M.c.st0 = H3_CS_FRAME_P THEN h3_frame_check_vs_state(M, h0)
                    ELSE [M |-> M, ret |-> 1])
  IN Stream(DemuxStream(M, M.c.dsi))

\* h3_process_demux() on the frame of h3c->dbuf
h3_process_demux(M) ==
  LET f == M.c.dbuf
      old_iw == M.c.miw
      Unblock(M1) == IF old_iw # M1.c.miw THEN h3c_unblock_sfctl(M1) ELSE M1
      Payload(M1) == Unblock(DemuxPayload(M1))
      NewFrame(M1) == [M1 EXCEPT !.c.dft = f.ft, !.c.dsi = f.sid, !.c.st0 = H3_CS_FRAME_P]
      Preface(r) == IF r.ret <= 0 THEN r.M
                    ELSE [r.M EXCEPT !.c.dbuf = NoFrame, !.c.max_id = 0,
                                     !.c.st0 = H3_CS_SETTINGS1]
  IN IF M.c.st0 >= H3_CS_ERROR THEN M
     ELSE IF M.c.st0 = H3_CS_PREFACE
     THEN IF "IS_BACK" \in M.c.flags THEN M
          ELSE IF f.ft # "PREFACE"
          THEN [h3c_error(M, "PROTOCOL_ERROR") EXCEPT !.c.st0 = H3_CS_ERROR2]
          ELSE Preface(h3c_send_settings(M))
     ELSE IF M.c.st0 = H3_CS_SETTINGS1 /\ f.ft # "SETTINGS"
     THEN [h3c_error(M, "PROTOCOL_ERROR") EXCEPT !.c.st0 = H3_CS_ERROR2]
     ELSE Payload(IF M.c.st0 \in {H3_CS_SETTINGS1, H3_CS_FRAME_H} THEN NewFrame(M) ELSE M)

(***************************************************************************)
(* The mux side of the I/O handler.                                        *)
(***************************************************************************)
\* h3_resume_each_sending_h3s(): <l> is what remains of the list to walk
RECURSIVE ResumeEach(_, _)
ResumeEach(M, l) ==
  IF l = <<>> THEN M
  ELSE LET p == Head(l)
           M1 == [M EXCEPT !.s[p].flags = @ \ H3_SF_BLK_ANY]
           want == M1.s[p].flags \cap {"WANT_SHUTR", "WANT_SHUTW"} # {}
       IN IF "NOTIFIED" \in M1.s[p].flags THEN ResumeEach(M1, Tail(l))
          ELSE IF ~want /\ ~M1.s[p].subs THEN ResumeEach(LIST_DEL_INIT(M1, p), Tail(l))
          ELSE IF M1.s[p].subs
          THEN ResumeEach([M1 EXCEPT !.s[p].flags = @ \cup {"NOTIFIED"},
                                     !.s[p].subs = FALSE], Tail(l))
          ELSE ResumeEach(M1, Tail(l))

h3_resume_each_sending_h3s(M, l) ==
  IF M.c.mws <= 0 \/ M.c.flags \cap H3_CF_MUX_BLOCK_ANY # {} \/ M.c.st0 >= H3_CS_ERROR
  THEN M
  ELSE ResumeEach(M, l)

\* h3c_bck_send_preface(): the preface then our SETTINGS frame
h3c_bck_send_preface(M) == h3c_send_settings(M)

\* the end of h3_process_mux(), from its label fail: [M, ret]
ProcessMuxFail(M) ==
  LET Sent(r) == IF r.M.c.flags \cap H3_CF_MUX_BLOCK_ANY # {}
                 THEN [M |-> r.M, ret |-> 0]
                 ELSE [M |-> [r.M EXCEPT !.c.st0 = H3_CS_ERROR2], ret |-> 1]
  IN IF M.c.st0 = H3_CS_ERROR
     THEN IF M.c.max_id >= 0
          THEN Sent(h3c_send_goaway_error(M))
          ELSE [M |-> [M EXCEPT !.c.st0 = H3_CS_ERROR2], ret |-> 1]
     ELSE [M |-> M, ret |-> 1]

\* h3_process_mux(): [M, ret]
h3_process_mux(M) ==
  LET Send(M2) == h3_resume_each_sending_h3s(M2, M2.c.send_list)
      Body(r) ==
        IF r.ret <= 0 \/ r.M.c.st0 < H3_CS_FRAME_H
        THEN IF r.ret <= 0 THEN ProcessMuxFail(r.M) ELSE [M |-> r.M, ret |-> 1]
        ELSE ProcessMuxFail(Send(h3_resume_each_sending_h3s(r.M, r.M.c.fctl_list)))
      Preface(r) == IF r.ret <= 0 THEN r ELSE [r EXCEPT !.M.c.st0 = H3_CS_SETTINGS1]
  IN Body(IF M.c.st0 = H3_CS_PREFACE /\ "IS_BACK" \in M.c.flags
          THEN Preface(h3c_bck_send_preface(M))
          ELSE [M |-> M, ret |-> 1])

\* h3_send(): <xprt> tells whether the transport takes what h3c->mbuf holds
h3_send(M, xprt) ==
  LET Flush(M1) == IF M1.c.mbuf /\ xprt = "all"
                   THEN [M1 EXCEPT !.c.mbuf = FALSE,
                                   !.c.flags = @ \ {"MUX_MFULL", "DEM_MROOM"},
                                   !.room = IF @ = "malloc" THEN @ ELSE "ok"]
                   ELSE M1
      Fill(M1) == IF M1.c.flags \cap H3_CF_MUX_BLOCK_ANY = {} THEN h3_process_mux(M1)
                  ELSE [M |-> M1, ret |-> 0]
      Resume(M1) == IF M1.c.flags \cap {"MUX_MFULL", "DEM_MROOM"} = {}
                       /\ M1.c.st0 >= H3_CS_FRAME_H
                    THEN h3_resume_each_sending_h3s(M1, M1.c.send_list)
                    ELSE M1
      Filled(r) ==
        [M |-> Flush(r.M),
         done |-> r.ret > 0 \/ "MUX_MALLOC" \in r.M.c.flags \/ ~(r.M.c.mbuf /\ xprt = "all")]
      Round(r) == IF r.done THEN r ELSE Filled(Fill(r.M))
  IN Resume(Round(Round([M |-> M, done |-> FALSE])).M)

\* the refresh of the timeout at the end of h3_process() and of h3_detach()
RefreshTimeout(M) ==
  IF M.c.task
  THEN [M EXCEPT !.c.expire = IF h3c_may_expire(M) THEN "timeout" ELSE "eternity"]
  ELSE M

\* h3_process(): <stopped> is h3c->proxy->state == PR_STSTOPPED
h3_process(M, xprt, stopped) ==
  LET Demux(M1) ==
        IF M1.c.dbuf # NoFrame /\ M1.c.flags \cap {"DEM_MBUSY", "DEM_MROOM"} = {}
        THEN LET M2 == h3_process_demux(M1)
             IN IF M2.c.st0 >= H3_CS_ERROR THEN [M2 EXCEPT !.c.dbuf = NoFrame] ELSE M2
        ELSE M1
      Stop(M1) ==
        IF stopped /\ M1.c.flags \cap {"GOAWAY_SENT", "GOAWAY_FAILED"} = {}
        THEN h3c_send_goaway_error(
               [M1 EXCEPT !.c.last_sid = IF @ < 0 THEN H3_MAX_WINDOW ELSE @]).M
        ELSE M1
      ReleaseMbuf(M1) ==
        IF \/ M1.c.st0 = H3_CS_ERROR2
           \/ "GOAWAY_FAILED" \in M1.c.flags
           \/ /\ M1.c.st0 # H3_CS_ERROR
              /\ ~M1.c.mbuf
              /\ (M1.c.mws <= 0 \/ LIST_ISEMPTY(M1.c.fctl_list))
              /\ (M1.c.flags \cap H3_CF_MUX_BLOCK_ANY # {} \/ LIST_ISEMPTY(M1.c.send_list))
        THEN [M1 EXCEPT !.c.mbuf = FALSE]
        ELSE M1
      End(M1) == h3_send(RefreshTimeout(ReleaseMbuf(M1)), xprt)
      Close(M1) ==
        IF \/ M1.c.st0 = H3_CS_ERROR2
           \/ "GOAWAY_FAILED" \in M1.c.flags
           \/ (IsEmpty(M1) /\ M1.c.last_sid >= 0 /\ M1.c.max_id >= M1.c.last_sid)
        THEN LET Woken(M2) == IF IsEmpty(M2) THEN h3_release(M2) ELSE End(M2)
             IN Woken(h3_wake_some_streams(M1, 0))
        ELSE End(M1)
  IN Close(Stop(h3_send(Demux(M), xprt)))

\* h3_recv(): the frame <f> sent by the peer enters h3c->dbuf when
\* h3_recv_allowed() and the buffer is empty
h3_recv(M, f) ==
  IF M.c.dbuf = NoFrame /\ M.c.st0 < H3_CS_ERROR
     /\ M.c.flags \cap {"DEM_MBUSY", "DEM_MROOM"} = {}
  THEN [M EXCEPT !.c.dbuf = f,
                 !.g.nb_wu = IF f.ft = "WINDOW_UPDATE" THEN @ + 1 ELSE @,
                 !.g.nb_settings = IF f.ft = "SETTINGS" /\ f.arg # M.c.miw THEN @ + 1
                                   ELSE @]
  ELSE M

\* h3_buf_available() with H3_CF_MUX_MALLOC set: the buffer is granted
h3_buf_available(M) ==
  [M EXCEPT !.c.flags = @ \ {"MUX_MALLOC", "DEM_MROOM"}]

\* the end of h3_timeout_task() once it decided to let the connection expire
TimeoutExpire(M, xprt) ==
  LET Failed(M1) == [M1 EXCEPT !.c.flags = @ \cup {"GOAWAY_FAILED"}]
      Release(M4) == IF IsEmpty(M4) THEN h3_release(M4) ELSE M4
      Flush(M3) == Release(IF M3.c.mbuf /\ "GOAWAY_FAILED" \notin M3.c.flags /\ xprt = "all"
                           THEN [M3 EXCEPT !.c.mbuf = FALSE]
                           ELSE M3)
      Sent(r) == Flush(IF r.ret <= 0 THEN Failed(r.M) ELSE r.M)
      Goaway(M2) == Sent(h3c_send_goaway_error([M2 EXCEPT !.c.last_sid = M2.c.max_id]))
      Woken(M1) == Goaway(IF M1.c.mbuf THEN Failed(M1) ELSE M1)
  IN Woken(h3_wake_some_streams(h3c_error([M EXCEPT !.c.task = FALSE,
                                                    !.g.expired = TRUE], "NO_ERROR"), 0))

\* h3_timeout_task() that lets expire only a connection with nothing pending
h3_timeout_task_idle(M, xprt) ==
  IF ~h3c_may_expire_idle(M) THEN [M EXCEPT !.c.expire = "eternity"]
  ELSE TimeoutExpire(M, xprt)

\* h3_timeout_task() when the timeout has expired
h3_timeout_task(M, xprt) ==
  IF ~h3c_may_expire(M) THEN [M EXCEPT !.c.expire = "eternity"]
  ELSE TimeoutExpire(M, xprt)


(***************************************************************************)
(* The stream side.  <app[p]> is what the data layer of the stream <p>     *)
(* still has to send: the start line and the headers (<sl>), <data> bytes  *)
(* of payload and the end of message (<eom>).  Each call of h3_snd_buf()   *)
(* presents an HTX message made of the pending headers, one DATA block of  *)
(* at most MaxBlk bytes, and the EOM block when the DATA block is the last *)
(* one; <count> covers the whole message.  A block of headers and the EOM  *)
(* block count for one byte each.  The status of a response is 200.  The   *)
(* tasklet wakeups of this file are commented out: h3s->shut_tl is never   *)
(* woken, so that h3_deferred_shut() never runs.                           *)
(***************************************************************************)
\* largest DATA block of an HTX message
MaxBlk == 16384

\* the HTX message presented for the pending data <a>
HtxOf(a) ==
  [sl |-> a.sl, blk |-> Min(a.data, MaxBlk), eom |-> a.eom /\ a.data <= MaxBlk]

HtxSize(h) == (IF h.sl THEN 1 ELSE 0) + h.blk + (IF h.eom THEN 1 ELSE 0)

htx_is_empty(h) == ~h.sl /\ h.blk = 0 /\ ~h.eom

\* a committed DATA frame that is not charged to the connection's window
CommitData_free(M, p, fsize) ==
  [M EXCEPT !.s[p].sws = @ - fsize,
            !.c.mbuf = TRUE,
            !.g.tx[p] = @ + fsize,
            !.g.frames = Append(@, [len |-> fsize, mws |-> M.c.mws,
                                    sws |-> M.s[p].sws, miw |-> M.c.miw,
                                    mfs |-> M.c.mfs])]

\* what a committed DATA frame of <fsize> bytes changes, with the record of
\* the frame: its size and the windows and the frame size when it was built
CommitData(M, p, fsize) ==
  [M EXCEPT !.s[p].sws = @ - fsize,
            !.c.mws = @ - fsize,
            !.c.mbuf = TRUE,
            !.g.tx[p] = @ + fsize,
            !.g.frames = Append(@, [len |-> fsize, mws |-> M.c.mws,
                                    sws |-> M.s[p].sws, miw |-> M.c.miw,
                                    mfs |-> M.c.mfs])]

\* the end of stream of h3s_frt_make_resp_data() and of the headers
EndStream(M, p) ==
  LET M1 == IF M.s[p].st = H3_SS_OPEN THEN [M EXCEPT !.s[p].st = H3_SS_HLOC]
            ELSE h3s_close(M, p)
  IN [M1 EXCEPT !.s[p].flags = @ \cup {"ES_SENT"}]

\* h3s_frt_make_resp_data(): [M, h, total], <h> is what remains of the message
RECURSIVE h3s_frt_make_resp_data(_, _, _, _, _)
h3s_frt_make_resp_data(M, p, h, count, total) ==
  IF count = 0 \/ htx_is_empty(h) THEN [M |-> M, h |-> h, total |-> total]
  ELSE IF h.blk = 0
  THEN \* HTX_BLK_EOM
       IF "ES_SENT" \in M.s[p].flags
       THEN [M |-> M, h |-> [h EXCEPT !.eom = FALSE], total |-> total + 1]
       ELSE IF M.room \in {"malloc", "mfull"}
       THEN [M |-> [M EXCEPT !.c.flags = @ \cup {BlockFlag(M.room)},
                             !.s[p].flags = @ \cup {"BLK_MROOM"}],
             h |-> h, total |-> total]
       ELSE [M |-> EndStream([M EXCEPT !.c.mbuf = TRUE], p),
             h |-> [h EXCEPT !.eom = FALSE], total |-> total + 1]
  ELSE \* HTX_BLK_DATA
       IF M.room \in {"malloc", "mfull"}
       THEN [M |-> [M EXCEPT !.c.flags = @ \cup {BlockFlag(M.room)},
                             !.s[p].flags = @ \cup {"BLK_MROOM"}],
             h |-> h, total |-> total]
       ELSE IF h.blk = count /\ ~h.eom /\ h.blk <= h3s_mws(M, p)
               /\ h.blk <= M.c.mws /\ h.blk <= M.c.mfs
       THEN \* the zero-copy swap
            [M |-> [CommitData(M, p, h.blk) EXCEPT !.room = "ok"],
             h |-> [h EXCEPT !.blk = 0], total |-> total + h.blk]
       ELSE IF h3s_mws(M, p) <= 0
       THEN [M |-> LIST_ADDQ(LIST_DEL_INIT([M EXCEPT !.s[p].flags = @ \cup {"BLK_SFCTL"}],
                                           p), "blocked_list", p),
             h |-> h, total |-> total]
       ELSE LET f1 == Min(Min(h.blk, count), h3s_mws(M, p))
                f2 == IF M.c.mfs # 0 THEN Min(f1, M.c.mfs) ELSE f1
                trunc_out == M.room = "trunc" /\ f2 > TruncRoom
                f3 == IF trunc_out THEN TruncRoom ELSE f2
            IN IF M.c.mws <= 0
               THEN [M |-> [M EXCEPT !.s[p].flags = @ \cup {"BLK_MFCTL"}],
                     h |-> h, total |-> total]
               ELSE LET fsize == Min(f3, M.c.mws)
                        M1 == [CommitData(M, p, fsize) EXCEPT !.room = "ok"]
                        h1 == [h EXCEPT !.blk = @ - fsize]
                    IN IF fsize = h.blk \/ trunc_out
                       THEN h3s_frt_make_resp_data(M1, p, h1, count - fsize,
                                                   total + fsize)
                       ELSE [M |-> M1, h |-> h1, total |-> total + fsize]

\* h3s_frt_make_resp_headers() and h3s_bck_make_req_headers(): [M, h, total]
MakeHeaders(M, p, h) ==
  IF M.room \in {"malloc", "mfull"}
  THEN [M |-> [M EXCEPT !.c.flags = @ \cup {BlockFlag(M.room)},
                        !.s[p].flags = @ \cup {"BLK_MROOM"}],
        h |-> h, total |-> 0]
  ELSE LET es_now == (h.blk = 0 /\ h.eom) \/ ~M.s[p].cs
           M1 == [M EXCEPT !.c.mbuf = TRUE, !.room = "ok",
                           !.s[p].flags = @ \cup {"HEADERS_SENT"}]
           M2 == IF "IS_BACK" \in M.c.flags
                 THEN [M1 EXCEPT !.s[p].st = IF es_now THEN H3_SS_HLOC ELSE H3_SS_OPEN,
                                 !.s[p].flags = IF es_now THEN @ \cup {"ES_SENT"} ELSE @]
                 ELSE IF es_now THEN EndStream(M1, p) ELSE M1
       IN [M |-> M2,
           h |-> [h EXCEPT !.sl = FALSE, !.eom = IF h.blk = 0 THEN FALSE ELSE @],
           total |-> 1 + (IF h.blk = 0 /\ h.eom THEN 1 ELSE 0)]

\* the loop of h3_snd_buf() over the blocks of the message: [M, h, total, count]
RECURSIVE SndLoop(_, _, _, _, _)
SndLoop(M, p, h, count, total) ==
  IF M.s[p].st < H3_SS_HLOC /\ M.s[p].flags \cap H3_SF_BLK_ANY = {}
     /\ count > 0 /\ ~htx_is_empty(h)
  THEN LET bsize == IF h.sl THEN 1 ELSE IF h.blk > 0 THEN h.blk ELSE 1
           r == IF h.sl THEN MakeHeaders(M, p, h)
                ELSE h3s_frt_make_resp_data(M, p, h, count, 0)
       IN IF r.total = 0 \/ r.total < bsize
          THEN [M |-> r.M, h |-> r.h, total |-> total + r.total, count |-> count - r.total]
          ELSE SndLoop(r.M, p, r.h, count - r.total, total + r.total)
  ELSE [M |-> M, h |-> h, total |-> total, count |-> count]

\* what the data layer still has to send once h3_snd_buf() took <h> out of
\* the message it was presented for <a>
AppLeft(a, h0, h) ==
  [sl |-> h.sl, data |-> a.data - (h0.blk - h.blk), eom |-> a.eom /\ (~h0.eom \/ h.eom)]

\* h3_snd_buf(): [M, a], <a> is what the data layer still has to send
h3_snd_buf(M, p, a) ==
  LET h0 == HtxOf(a)
      Done(r) ==
        LET trim == r.M.s[p].st >= H3_SS_HLOC
            total == IF trim THEN r.total + r.count ELSE r.total
            M1 == IF r.M.s[p].st = H3_SS_ERROR \/ "RST_RCVD" \in r.M.s[p].flags
                  THEN LET x == h3s_send_rst_stream(r.M, p)
                       IN IF x.ret > 0 THEN h3s_close(x.M, p) ELSE x.M
                  ELSE r.M
            M2 == IF total > 0
                     /\ M1.s[p].flags \cap {"BLK_SFCTL", "WANT_SHUTR", "WANT_SHUTW"} = {}
                  THEN LIST_DEL_INIT(M1, p)
                  ELSE M1
        IN [M |-> M2, a |-> IF trim THEN NoApp ELSE AppLeft(a, h0, r.h)]
      Send(M1) == Done(SndLoop(M1, p, h0, HtxSize(h0), 0))
      M0 == [M EXCEPT !.s[p].flags = @ \ {"NOTIFIED"}]
  IN IF "NOTIFIED" \notin M.s[p].flags
        /\ (~LIST_ISEMPTY(M.c.send_list) \/ ~LIST_ISEMPTY(M.c.fctl_list))
     THEN [M |-> M, a |-> a]
     ELSE IF M0.c.st0 < H3_CS_FRAME_H \/ M0.c.st0 >= H3_CS_ERROR THEN [M |-> M0, a |-> a]
     ELSE LET M1 == IF HtxSize(h0) > 0
                    THEN [M0 EXCEPT !.s[p].flags = @ \cup {"OUTGOING_DATA"}]
                    ELSE M0
          IN IF M1.s[p].id = 0
             THEN LET id == h3c_get_next_sid(M1)
                  IN IF id < 0 THEN [M |-> M1, a |-> a]
                     ELSE Send([M1 EXCEPT !.s[p].id = id, !.c.max_id = id,
                                          !.c.nb_reserved = @ - 1,
                                          !.g.new_sid = id])
             ELSE Send(M1)

\* h3_subscribe() that queues the stream without looking at its list element
h3_subscribe_again(M, p) ==
  LET M1 == [M EXCEPT !.s[p].subs = TRUE]
  IN IF "BLK_SFCTL" \notin M1.s[p].flags
     THEN IF "BLK_MFCTL" \in M1.s[p].flags THEN LIST_ADDQ(M1, "fctl_list", p)
          ELSE LIST_ADDQ(M1, "send_list", p)
     ELSE M1

\* h3_subscribe() to SUB_RETRY_SEND
h3_subscribe(M, p) ==
  LET M1 == [M EXCEPT !.s[p].subs = TRUE]
  IN IF "BLK_SFCTL" \notin M1.s[p].flags /\ ~LIST_ADDED(M1, p)
     THEN IF "BLK_MFCTL" \in M1.s[p].flags THEN LIST_ADDQ(M1, "fctl_list", p)
          ELSE LIST_ADDQ(M1, "send_list", p)
     ELSE M1

\* h3_unsubscribe() from SUB_RETRY_SEND
h3_unsubscribe(M, p) ==
  LET M1 == [M EXCEPT !.s[p].subs = FALSE, !.s[p].flags = @ \ {"NOTIFIED"}]
  IN IF M1.s[p].flags \cap {"WANT_SHUTR", "WANT_SHUTW"} = {} THEN LIST_DEL_INIT(M1, p)
     ELSE M1

\* add_to_list: of h3_do_shutr()
ShutAddToList(M, p, want) ==
  LET M1 == [M EXCEPT !.s[p].flags = @ \cup {want}]
  IN IF ~LIST_ADDED(M1, p)
     THEN IF "BLK_MFCTL" \in M1.s[p].flags THEN LIST_ADDQ(M1, "fctl_list", p)
          ELSE IF M1.s[p].flags \cap {"BLK_MBUSY", "BLK_MROOM"} # {}
          THEN LIST_ADDQ(M1, "send_list", p)
          ELSE M1
     ELSE M1

\* the choice of the error of h3_do_shutr()
ShutError(M, p) ==
  IF "KILL_CONN" \in M.s[p].flags /\ M.c.flags \cap {"GOAWAY_SENT", "GOAWAY_FAILED"} = {}
  THEN h3s_error(h3c_error(M, "ENHANCE_YOUR_CALM"), p, "ENHANCE_YOUR_CALM")
  ELSE IF "HEADERS_SENT" \notin M.s[p].flags THEN h3s_error(M, p, "REFUSED_STREAM")
  ELSE h3s_error(M, p, "CANCEL")

\* h3_do_shutr()
h3_do_shutr(M, p) ==
  IF M.s[p].st = H3_SS_CLOSED THEN [M EXCEPT !.s[p].flags = @ \ {"WANT_SHUTR"}]
  ELSE LET M1 == ShutError(M, p)
           r == IF "RST_SENT" \notin M1.s[p].flags THEN h3s_send_rst_stream(M1, p)
                ELSE [M |-> M1, ret |-> 1]
       IN IF r.ret <= 0 THEN ShutAddToList(r.M, p, "WANT_SHUTR")
          ELSE [h3s_close(r.M, p) EXCEPT !.s[p].flags = @ \ {"WANT_SHUTR"}]

\* h3_shutr(): <kill> is CS_FL_KILL_CONN, <mode> is not CS_SHR_DRAIN
h3_shutr(M, p, kill, mode) ==
  LET M1 == IF kill THEN [M EXCEPT !.s[p].flags = @ \cup {"KILL_CONN"}] ELSE M
  IN IF mode THEN h3_do_shutr(M1, p) ELSE M1

\* h3_detach(): the session keeps a backend connection it owns
h3_detach(M, p) ==
  LET M1 == [M EXCEPT !.s[p].flags = @ \ {"NOTIFIED"}, !.s[p].cs = FALSE,
                      !.c.nb_cs = @ - 1]
      M2 == IF M1.c.flags \cap {"DEM_MBUSY", "DEM_MROOM"} # {} /\ M1.s[p].id = M1.c.dsi
            THEN [M1 EXCEPT !.c.flags = @ \ {"DEM_MBUSY", "DEM_MROOM", "MUX_MALLOC",
                                             "MUX_MFULL"}]
            ELSE M1
      M3 == h3s_destroy(M2, p)
  IN IF M1.c.st0 < H3_CS_ERROR
        /\ M1.s[p].flags \cap {"BLK_MBUSY", "BLK_MROOM", "BLK_MFCTL"} # {}
        /\ (M1.s[p].flags \cap {"WANT_SHUTR", "WANT_SHUTW"} # {} \/ M1.s[p].subs)
     THEN M1
     ELSE IF h3c_is_dead(M3) THEN h3_release(M3)
     ELSE RefreshTimeout(M3)

\* h3_attach(): [M, h3s]
h3_attach(M) == h3c_bck_stream_new(M)

(***************************************************************************)
(* The mux as a state machine: h3_init() then the callbacks of the mux,    *)
(* run by the connection layer, the scheduler and the data layers.         *)
(***************************************************************************)
\* highest stream id of the model
MaxSid == 1

\* the values of SETTINGS_INITIAL_WINDOW_SIZE the peer announces (-1 is a value above 2^31-1)
SettingsIW == {-1, 0, 65535, H3_MAX_WINDOW}

\* the increments of the WINDOW_UPDATE frames of the peer
WuIncs == {H3_MAX_WINDOW}

\* the peer changes its initial window at most MaxSettings times and sends at
\* most MaxWu WINDOW_UPDATE frames
MaxSettings == 3

MaxWu == 2

\* the last stream ids of the GOAWAY frames of the peer
GoawayLast == {1}

\* the bytes of payload the data layer of a stream has to send
Payload == 100000

\* the sizes of the payloads the data layers send
DataSizes == {Payload}

\* highest stream id of the flow control model
FctlMaxSid == 1

\* h3_init(): the struct h3c of a new connection (the timeouts are configured)
h3_init(back) ==
  LET c == [st0 |-> H3_CS_PREFACE, errcode |-> "NO_ERROR",
            flags |-> IF back THEN {"IS_BACK"} ELSE {},
            streams_limit |-> h3_settings_max_concurrent_streams,
            max_id |-> -1, last_sid |-> -1, mbuf |-> FALSE,
            miw |-> 65535, mws |-> 65535, mfs |-> 16384,
            nb_streams |-> 0, nb_cs |-> 0, nb_reserved |-> 0,
            task |-> TRUE, expire |-> "timeout",
            streams_by_id |-> {}, send_list |-> <<>>, fctl_list |-> <<>>,
            blocked_list |-> <<>>, dbuf |-> NoFrame, dft |-> "none", dsi |-> -1]
      M == [c |-> c, s |-> [p \in Ptrs |-> NoH3s], g |-> NoMuxHist, room |-> "ok"]
  IN IF back THEN h3c_bck_stream_new(M).M ELSE M

\* the state after h3_init() on an established connection
InitMux ==
  /\ InitQuic
  /\ h3c = h3_init(target = "server").c
  /\ h3s = h3_init(target = "server").s
  /\ app = [p \in Ptrs |-> NoApp]
  /\ proxy_stopped = FALSE
  /\ mux_hist = NoMuxHist

\* the mux at the start of the handler <op>
Mux(room) ==
  [c |-> h3c, s |-> h3s, room |-> room,
   g |-> [mux_hist EXCEPT !.rst = <<>>, !.frames = <<>>, !.new_sid = NULL,
                          !.bck_new = FALSE, !.wu_err = FALSE]]

\* the mux at the end of a handler; the data layer of a freed stream is gone
MuxCommit(M, a) ==
  /\ h3c' = M.c
  /\ h3s' = M.s
  /\ app' = [p \in Ptrs |-> IF M.s[p].st = NULL \/ ~M.s[p].cs THEN NoApp ELSE a[p]]
  /\ mux_hist' = M.g

Ids(c, s) == {s[p].id : p \in c.streams_by_id} \ {0}

\* the frames the peer may send next: SETTINGS with an initial window of <iws>,
\* WINDOW_UPDATE with an increment of <incs>, HEADERS of a new stream up to
\* <maxsid> or of a known one with END_STREAM as in <es>, RST_STREAM, GOAWAY with a last stream of
\* <lasts>, and if <cont> RST_STREAM and an out-of-sequence CONTINUATION
Frames(iws, incs, lasts, maxsid, es, cont) ==
  IF h3c = NoH3c THEN {}
  ELSE IF h3c.st0 = H3_CS_PREFACE
  THEN {[ft |-> "PREFACE", sid |-> 0, arg |-> 0], [ft |-> "SETTINGS", sid |-> 0, arg |-> 0]}
  ELSE {[ft |-> "SETTINGS", sid |-> 0, arg |-> v] :
          v \in IF mux_hist.nb_settings < MaxSettings THEN iws ELSE {}}
       \cup {[ft |-> "WINDOW_UPDATE", sid |-> i, arg |-> v] :
               i \in {0} \cup Ids(h3c, h3s),
               v \in IF mux_hist.nb_wu < MaxWu THEN incs ELSE {}}
       \cup {[ft |-> "HEADERS", sid |-> i, arg |-> e] :
               i \in {j \in {h3c.max_id + 1, h3c.max_id + 2} : j % 2 = 1 /\ j <= maxsid}
                     \cup Ids(h3c, h3s),
               e \in es}
       \cup {[ft |-> "GOAWAY", sid |-> 0, arg |-> v] : v \in lasts}
       \cup (IF cont
             THEN {[ft |-> "RST_STREAM", sid |-> i, arg |-> 0] : i \in Ids(h3c, h3s)}
                  \cup {[ft |-> "CONTINUATION", sid |-> 1, arg |-> 0]}
             ELSE {})

\* h3_io_cb(): the tasklet of the connection, with what the peer sent
H3IoCb(f, room, xprt) ==
  /\ h3c # NoH3c
  /\ room \in Rooms(Mux("ok"))
  /\ LET Process(M) == IF M.c.dbuf = NoFrame /\ f # NoFrame
                       THEN FALSE
                       ELSE MuxCommit(h3_process(M, xprt, proxy_stopped), app)
     IN Process(h3_recv(h3_send(Mux(room), xprt), f))
  /\ UNCHANGED <<proxy_stopped, quicvars>>

\* h3_timeout_task() when the timeout of the connection has expired
H3TimeoutTask(room, xprt) ==
  /\ h3c # NoH3c
  /\ h3c.task
  /\ h3c.expire = "timeout"
  /\ room \in Rooms(Mux("ok"))
  /\ MuxCommit(h3_timeout_task(Mux(room), xprt), app)
  /\ UNCHANGED <<proxy_stopped, quicvars>>

\* the proxy of the connection is stopped
ProxyStop ==
  /\ h3c # NoH3c
  /\ ~proxy_stopped
  /\ proxy_stopped' = TRUE
  /\ UNCHANGED <<h3c, h3s, app, mux_hist, quicvars>>

\* h3_buf_available(): the buffer the mux was waiting for is granted
H3BufAvailable ==
  /\ h3c # NoH3c
  /\ "MUX_MALLOC" \in h3c.flags
  /\ MuxCommit(h3_buf_available(Mux("ok")), app)
  /\ UNCHANGED <<proxy_stopped, quicvars>>

\* the data layer of the stream <p> has <n> bytes to send after its headers
AppSend(p, n) ==
  /\ h3c # NoH3c
  /\ p \in h3c.streams_by_id
  /\ h3s[p].cs
  /\ app[p] = NoApp
  /\ "OUTGOING_DATA" \notin h3s[p].flags
  /\ app' = [app EXCEPT ![p] = [sl |-> TRUE, data |-> n, eom |-> TRUE]]
  /\ UNCHANGED <<h3c, h3s, proxy_stopped, mux_hist, quicvars>>

\* h3_snd_buf() on the stream <p>
H3SndBuf(p, room) ==
  /\ h3c # NoH3c
  /\ p \in h3c.streams_by_id
  /\ h3s[p].cs
  /\ room \in Rooms(Mux("ok"))
  /\ LET Done(r) == MuxCommit(r.M, [app EXCEPT ![p] = r.a])
     IN Done(h3_snd_buf(Mux(room), p, app[p]))
  /\ UNCHANGED <<proxy_stopped, quicvars>>

\* h3_subscribe() of the stream <p> to SUB_RETRY_SEND
H3Subscribe(p) ==
  /\ h3c # NoH3c
  /\ p \in h3c.streams_by_id
  /\ h3s[p].cs
  /\ ~h3s[p].subs
  /\ MuxCommit(h3_subscribe(Mux("ok"), p), app)
  /\ UNCHANGED <<proxy_stopped, quicvars>>

\* h3_unsubscribe() of the stream <p> from SUB_RETRY_SEND
H3Unsubscribe(p) ==
  /\ h3c # NoH3c
  /\ p \in h3c.streams_by_id
  /\ h3s[p].cs
  /\ h3s[p].subs
  /\ MuxCommit(h3_unsubscribe(Mux("ok"), p), app)
  /\ UNCHANGED <<proxy_stopped, quicvars>>

\* h3_shutr() on the stream <p>
H3Shutr(p, kill, room) ==
  /\ h3c # NoH3c
  /\ p \in h3c.streams_by_id
  /\ h3s[p].cs
  /\ room \in Rooms(Mux("ok"))
  /\ MuxCommit(h3_shutr(Mux(room), p, kill, TRUE), app)
  /\ UNCHANGED <<proxy_stopped, quicvars>>

\* h3_detach() of the conn_stream of the stream <p>
H3Detach(p) ==
  /\ h3c # NoH3c
  /\ p \in h3c.streams_by_id
  /\ h3s[p].cs
  /\ MuxCommit(h3_detach(Mux("ok"), p), app)
  /\ UNCHANGED <<proxy_stopped, quicvars>>

\* h3_attach() on a backend connection whose streams get ids up to <maxsid>
H3AttachUpTo(maxsid) ==
  /\ h3c # NoH3c
  /\ "IS_BACK" \in h3c.flags
  /\ h3c.max_id + 2 * h3c.nb_reserved < maxsid
  /\ LET Done(r) == MuxCommit([r.M EXCEPT !.g.bck_new = r.h3s # NULL], app)
     IN Done(h3_attach(Mux("ok")))
  /\ UNCHANGED <<proxy_stopped, quicvars>>

\* h3_attach() on a backend connection
H3Attach == H3AttachUpTo(MaxSid)

\* a frontend connection
InitFrt == InitMux /\ target = "listener"

\* a backend connection
InitBck == InitMux /\ target = "server"

\* a frontend connection whose responses have no payload, the windows left as they are
NextMux ==
  \/ \E f \in Frames({65535}, {}, GoawayLast, MaxSid, {1}, TRUE) \cup {NoFrame},
        room \in {"ok", "mfull"}, xprt \in {"all", "none"} :
        H3IoCb(f, room, xprt)
  \/ \E room \in {"ok", "malloc"}, xprt \in {"all", "none"} :
        H3TimeoutTask(room, xprt)
  \/ ProxyStop
  \/ H3BufAvailable
  \/ \E p \in Ptrs : AppSend(p, 0)
  \/ \E p \in Ptrs : H3SndBuf(p, "ok")
  \/ \E p \in Ptrs : H3Subscribe(p)
  \/ \E p \in Ptrs, kill \in BOOLEAN, room \in {"ok", "mfull"} : H3Shutr(p, kill, room)
  \/ \E p \in Ptrs : H3Detach(p)

SpecMux == InitFrt /\ [][NextMux]_vars

\* a backend connection: the requests have no payload
NextBck ==
  \/ \E f \in Frames({65535}, {}, GoawayLast, 0, {0, 1}, TRUE) \cup {NoFrame},
        xprt \in {"all", "none"} : H3IoCb(f, "ok", xprt)
  \/ ProxyStop
  \/ H3Attach
  \/ \E p \in Ptrs : AppSend(p, 0)
  \/ \E p \in Ptrs : H3SndBuf(p, "ok")
  \/ \E p \in Ptrs : H3Detach(p)

SpecBck == InitBck /\ [][NextBck]_vars

\* the flow control of a frontend connection with large payloads
NextFctl ==
  \/ \E f \in Frames(SettingsIW, WuIncs, {}, FctlMaxSid, {1}, FALSE) \cup {NoFrame},
        xprt \in {"all", "none"} : H3IoCb(f, "ok", xprt)
  \/ \E p \in Ptrs, n \in DataSizes : AppSend(p, n)
  \/ \E p \in Ptrs, room \in {"ok", "trunc"} : H3SndBuf(p, room)
  \/ \E p \in Ptrs : H3Subscribe(p)
  \/ \E p \in Ptrs : H3Unsubscribe(p)

SpecFctl == InitFrt /\ [][NextFctl]_vars

\* highest stream id the peer opens when two streams share the lists
ListsMaxSid == 3

\* two streams of a frontend connection that send, subscribe and unsubscribe
\* while the peer opens the windows
NextLists ==
  \/ \E f \in Frames({65535}, WuIncs, {}, ListsMaxSid, {1}, FALSE) \cup {NoFrame} :
        H3IoCb(f, "ok", "all")
  \/ \E p \in Ptrs, n \in DataSizes : AppSend(p, n)
  \/ \E p \in Ptrs : H3SndBuf(p, "ok")
  \/ \E p \in Ptrs : H3Subscribe(p)
  \/ \E p \in Ptrs : H3Unsubscribe(p)

SpecLists == InitFrt /\ [][NextLists]_vars

\* highest stream id of the model of the stream ids
SidMaxId == 4

\* HEADERS frames of any stream id, even ones and old ones included
HeadersAny ==
  IF h3c = NoH3c \/ h3c.st0 = H3_CS_PREFACE THEN {}
  ELSE {[ft |-> "HEADERS", sid |-> i, arg |-> 0] : i \in 0..SidMaxId}

\* a connection of either side whose peer sends HEADERS of any stream id
\* while the data layers open, use and leave streams
NextSid ==
  \/ \E f \in Frames({65535}, {}, {}, SidMaxId, {0, 1}, FALSE) \cup HeadersAny \cup {NoFrame} :
        H3IoCb(f, "ok", "all")
  \/ H3AttachUpTo(SidMaxId)
  \/ \E p \in Ptrs : AppSend(p, 0)
  \/ \E p \in Ptrs : H3SndBuf(p, "ok")
  \/ \E p \in Ptrs : H3Detach(p)

SpecSid == InitMux /\ [][NextSid]_vars

(***************************************************************************)
(* Properties.                                                             *)
(***************************************************************************)
\* the number of bytes of the first <n> deliveries of <s>
RECURSIVE ProvidedLen(_, _)
ProvidedLen(s, n) == IF n = 0 THEN 0 ELSE ProvidedLen(s, n - 1) + s[n][2]

\* C1: CRYPTO bytes are handed to the TLS stack only at the offset the level
\* has reached, and the offset advances by the length delivered: at every
\* level the deliveries follow each other from offset 0 without gap or
\* overlap, and rx.crypto.offset is the number of bytes delivered.
C1_InOrderDelivery ==
  \A l \in Levels :
    /\ \A i \in 1..Len(provided[l]) :
         provided[l][i][1] = ProvidedLen(provided[l], i - 1)
    /\ qel[l].rx_offset = ProvidedLen(provided[l], Len(provided[l]))

\* two CRYPTO frames were delivered at a level, the second once the offset
\* had reached it
C1_Witness ==
  \E l \in Levels :
    /\ Len(provided[l]) = 2
    /\ provided[l][2][1] = RxCryptoLen
    /\ qel[l].rx_offset = 2 * RxCryptoLen

\* the ranges <<smallest, largest>> an ACK frame acknowledges, as the frame
\* encodes them: a range ends gap + 2 below the smallest of the previous one
RECURSIVE RangesOf(_, _, _)
RangesOf(largest, smallest, ranges) ==
  IF ranges = <<>> THEN << <<smallest, largest>> >>
  ELSE << <<smallest, largest>> >>
       \o RangesOf(smallest - ranges[1][1] - 2,
                   smallest - ranges[1][1] - 2 - ranges[1][2], Tail(ranges))

AckRangesOf(ack) ==
  RangesOf(ack.largest_ack, ack.largest_ack - ack.first_ack_range, ack.ranges)

AckedPns(ack) ==
  UNION {AckRangesOf(ack)[i][1] .. AckRangesOf(ack)[i][2] :
           i \in 1..Len(AckRangesOf(ack))}

\* the packet numbers strictly between the <i>-th range and the next one
GapPnsAt(ack, i) ==
  (AckRangesOf(ack)[i + 1][2] + 1) .. (AckRangesOf(ack)[i][1] - 1)

GapPns(ack) == UNION {GapPnsAt(ack, i) : i \in 1..Len(ack.ranges)}

\* an ACK frame was parsed, without error, by the last tasklet step
AckParsed == last_ack.level # NULL /\ last_ack.ok

Within(T, pns) == {f \in T : f.pn \in pns}

\* C2: once an ACK frame is parsed, every descriptor of the outgoing tree
\* whose packet number lies in one of the acknowledged ranges is gone from
\* the tree, and crypto_in_flight has decreased by the lengths of the
\* descriptors acknowledged (and of those declared lost).
C2_AckedDescriptorsRemoved ==
  AckParsed =>
    /\ Within(last_ack.frms1, AckedPns(last_ack.ack)) = {}
    /\ last_ack.ifc1 =
         last_ack.ifc0
         - SumLen(Within(last_ack.frms0,
                         AckedPns(last_ack.ack) \cup last_ack.lost))

\* C3: a descriptor is declared lost only if its packet number lies strictly
\* inside a gap of the ACK frame, between the next largest acknowledged and
\* the smallest of the range above.
C3_LostOnlyInGap ==
  AckParsed => last_ack.lost \subseteq GapPns(last_ack.ack)

\* C4: once an ACK frame with a gap is parsed, the descriptors of the gap
\* are replaced by a single descriptor of the retransmit tree, keyed on one
\* of their packet numbers and as long as all of them together; none stays
\* in the outgoing tree; crypto_in_flight has decreased by their lengths and
\* the retransmit flag is set.
C4_GapCoalesced ==
  AckParsed =>
    \A i \in 1..Len(last_ack.ack.ranges) :
      LET D == Within(last_ack.frms0, GapPnsAt(last_ack.ack, i))
      IN D # {} =>
           /\ Within(last_ack.frms1, GapPnsAt(last_ack.ack, i)) = {}
           /\ Cardinality(Within(last_ack.rtx1 \ last_ack.rtx0,
                                 GapPnsAt(last_ack.ack, i))) = 1
           /\ \A g \in Within(last_ack.rtx1 \ last_ack.rtx0, GapPnsAt(last_ack.ack, i)) :
                g.len = SumLen(D)
           /\ last_ack.retransmit1 = 1
           /\ last_ack.ifc1 <= last_ack.ifc0 - SumLen(D)

\* the CRYPTO bytes carried by the packets of <pkts> whose rank is in <idx>
RECURSIVE SumCrypto(_, _)
SumCrypto(pkts, idx) ==
  IF idx = {} THEN 0
  ELSE LET i == CHOOSE x \in idx : TRUE
       IN pkts[i].crypto_len + SumCrypto(pkts, idx \ {i})

\* the retransmit tree of a level, the flag and the CRYPTO data in flight
\* when the step that is taken starts to build packets: as the ACK frame it
\* parsed left them, if it parsed one
RtxAtStart(l) ==
  IF last_ack'.level = l THEN last_ack'.rtx1 ELSE qel[l].retransmit_frms

RetransmitAtStart ==
  IF last_ack'.level # NULL THEN last_ack'.retransmit1 ELSE retransmit

InFlightAtStart ==
  IF last_ack'.level # NULL THEN last_ack'.ifc1 ELSE crypto_in_flight

\* the ranks, among the packets the step commits, of those built from the
\* descriptor <k> of the retransmit tree of level <l>
BuiltFrom(l, k) ==
  {i \in 1..Len(built') : built'[i].level = l /\ built'[i].from = k}

C6_Step ==
  /\ \A l \in RxLevels : \A d \in RtxAtStart(l) :
       LET idx == BuiltFrom(l, d.pn)
           n == SumCrypto(built', idx)
       IN /\ \A i \in idx :
               built'[i].crypto_offset
                 = d.offset + SumCrypto(built', {j \in idx : j < i})
          /\ n <= d.len
          /\ Within(qel'[l].retransmit_frms, {d.pn})
               = IF n = d.len THEN {}
                 ELSE {[pn |-> d.pn, offset |-> d.offset + n, len |-> d.len - n]}
  /\ \A i \in 1..Len(built') :
       built'[i].from # NULL =>
         \E d \in RtxAtStart(built'[i].level) : d.pn = built'[i].from
  /\ (/\ RetransmitAtStart # 0
      /\ failure'.kind \in {"none", "send"}
      /\ \A l \in RxLevels : qel'[l].retransmit_frms = {})
     => retransmit' = 0

\* C6: in a step that retransmits, every packet built from a descriptor of
\* the retransmit tree carries the CRYPTO data at the offset of the
\* descriptor and consumes a prefix of it; what is left of the descriptor
\* stays in the tree with its offset advanced and its length reduced by the
\* bytes sent; a descriptor that is consumed is removed; the retransmit flag
\* is cleared once the retransmit trees are empty.
C6_RetransmitConsumesPrefix == [][C6_Step]_vars

\* a packet was built from a retransmit descriptor of which a part is left,
\* starting where the packet ends
C6_Witness ==
  \E i \in 1..Len(built) : \E d \in qel[built[i].level].retransmit_frms :
    /\ built[i].from = d.pn
    /\ d.offset = built[i].crypto_offset + built[i].crypto_len
    /\ d.len > 0

C7_Step ==
  /\ crypto_in_flight' <= QUIC_CRYPTO_IN_FLIGHT_MAX
  /\ \A i \in 1..Len(built') :
       LET pkt == built'[i]
       IN /\ pkt.crypto_len
               <= QUIC_CRYPTO_IN_FLIGHT_MAX
                  - (InFlightAtStart + SumCrypto(built', 1..(i - 1)))
          /\ pkt.from = NULL =>
               pkt.crypto_len <= qel[pkt.level].tx_sz - pkt.crypto_offset
          /\ pkt.from # NULL =>
               \E d \in RtxAtStart(pkt.level) :
                 /\ d.pn = pkt.from
                 /\ pkt.crypto_len <= d.offset + d.len - pkt.crypto_offset
          /\ pkt.size <= QUIC_PACKET_MAXLEN
  /\ \A b \in 1..QUIC_CONN_TX_BUFS_NB : tx'.bufs[b].pos <= QUIC_PACKET_MAXLEN

\* C7: after every step crypto_in_flight is at most
\* QUIC_CRYPTO_IN_FLIGHT_MAX, and no packet, fresh or retransmitted, carries
\* a CRYPTO frame longer than what was left below that maximum when it was
\* built, than the data available, or than the room of its buffer.
C7_InFlightCapped == [][C7_Step]_vars

\* the maximum is reached while CRYPTO data are still to be sent
C7_Witness ==
  /\ crypto_in_flight = QUIC_CRYPTO_IN_FLIGHT_MAX
  /\ \E i \in 1..Len(built) :
       /\ built[i].crypto_len > 0
       /\ qel[built[i].level].tx_offset < qel[built[i].level].tx_sz

C8_Step ==
  \A l \in RxLevels :
    LET idx == {i \in 1..Len(built') : built'[i].level = l}
    IN /\ \A i \in idx :
            /\ built'[i].pn > pktns[l].next_pn
            /\ \A j \in idx : j < i => built'[j].pn < built'[i].pn
       /\ pktns'[l].next_pn >= pktns[l].next_pn
       /\ pktns'[l].next_pn - pktns[l].next_pn = Cardinality(idx)
       /\ Cardinality(Keys(qel'[l].frms)) = Cardinality(qel'[l].frms)
       /\ Cardinality(Keys(qel'[l].retransmit_frms))
            = Cardinality(qel'[l].retransmit_frms)

\* C8: in each space the packet numbers of the committed packets increase
\* strictly; tx.next_pn never decreases and advances by one for each packet
\* committed to the output buffer, and only then; no tree holds two
\* descriptors of one packet number.
C8_PacketNumbers == [][C8_Step]_vars

\* C9: a packet built while its space has ACK_REQUIRED carries the ACK
\* frame of the ranges of the space; ACK_REQUIRED is cleared only by a
\* committed packet that carries the ACK frame, so that it is still set
\* after an attempt that commits no packet.
C9_AckRequiredUntilCommitted ==
  /\ \A i \in 1..Len(built) :
       built[i].ack_required =>
         /\ built[i].ack # <<>>
         /\ built[i].ack = pktns[built[i].level].ack_ranges
  /\ \A l \in RxLevels : pktns[l].ack_owed => pktns[l].ack_required

Covers(ranges, pn) ==
  \E k \in 1..Len(ranges) : ranges[k].first <= pn /\ pn <= ranges[k].last

\* C10: once a server received the first Initial packet of the client,
\* with packet number 0 and the beginning of the CRYPTO stream, the flight
\* it answers with holds an Initial packet with an ACK frame that
\* acknowledges packet number 0.
C10_FirstFlightAcksInitial ==
  (/\ target = "listener"
   /\ provided[QUIC_TLS_ENC_LEVEL_INITIAL] # <<>>
   /\ Covers(pktns[QUIC_TLS_ENC_LEVEL_INITIAL].ack_ranges, 0)
   /\ \E i \in 1..Len(built) :
        /\ built[i].level = QUIC_TLS_ENC_LEVEL_INITIAL
        /\ built[i].pn = 0
        /\ built[i].crypto_len > 0)
  => \E j \in 1..Len(built) :
       /\ built[j].level = QUIC_TLS_ENC_LEVEL_INITIAL
       /\ Covers(built[j].ack, 0)

\* the ACK frames {largest 8, first_range 0, gap, range 1}
AckOf8(gap) ==
  [largest_ack |-> 8, first_ack_range |-> 0, ranges |-> <<<<gap, 1>>>>]

\* the last step parsed the frame <ack> while the descriptors of the packets
\* 5 to 8 were in the outgoing tree of the Initial level
AckOf5to8(ack) ==
  /\ AckParsed
  /\ last_ack.level = QUIC_TLS_ENC_LEVEL_INITIAL
  /\ last_ack.ack = ack
  /\ last_ack.frms0 = FrmsInFlight
  /\ last_ack.rtx0 = {}

\* the descriptors of 5, 6 and 8 are gone, the one of 7 is to retransmit
Only7Lost ==
  /\ last_ack.frms1 = {}
  /\ last_ack.rtx1 = {[pn |-> 7, offset |-> 600, len |-> 100]}
  /\ last_ack.retransmit1 = 1
  /\ last_ack.ifc1 = last_ack.ifc0 - 400

\* a committed packet carries the CRYPTO data of packet 7 under a new number
Rebuilt7 ==
  \E i \in 1..Len(built) :
    /\ built[i].level = QUIC_TLS_ENC_LEVEL_INITIAL
    /\ built[i].crypto_offset = 600
    /\ built[i].crypto_len = 100
    /\ built[i].pn > 8
    /\ built[i].from = 7

CoveredPns(ranges) ==
  UNION {ranges[k].first .. ranges[k].last : k \in 1..Len(ranges)}

\* C11: in each space the packet numbers covered by ack_ranges are exactly
\* those of the packets that were decrypted and parsed in that space; a
\* step adds no other packet number and removes none.
C11_Step ==
  \A l \in Levels :
    /\ CoveredPns(pktns'[l].ack_ranges) = pktns'[l].rcvd
    /\ CoveredPns(pktns[l].ack_ranges) \subseteq CoveredPns(pktns'[l].ack_ranges)

C11_AckRangesAreReceived == [][C11_Step]_vars

\* packet 0 was dropped and packet 1 was parsed: only packet 1 is covered
C11_Witness ==
  /\ next_rx_pn = 2
  /\ \A l \in Levels : qel[l].qpkts = <<>> /\ qel[l].pqpkts = <<>>
  /\ \E l \in RxLevels :
       /\ pktns[l].rcvd = {1}
       /\ pktns[l].ack_ranges = <<[first |-> 1, last |-> 1]>>
       /\ \A k \in Levels \ {l} : pktns[k].rcvd = {}

\* C12: whatever the order of the insertions, the ACK ranges of a space are
\* well formed, sorted from the largest to the smallest, pairwise disjoint
\* and merged: no range ends right below, or inside, another one.
C12_AckRangesMerged ==
  \A l \in Levels :
    LET r == pktns[l].ack_ranges
    IN /\ \A i \in 1..Len(r) : r[i].first <= r[i].last
       /\ \A i, j \in 1..Len(r) : i < j => r[j].last + 1 < r[i].first

\* three ranges were built by insertions that were not in increasing order
C12_Witness ==
  LET p == pktns[QUIC_TLS_ENC_LEVEL_INITIAL]
  IN /\ Len(p.ack_ranges) = 3
     /\ p.rcvd = {0, 1, 3, 5, 6}
     /\ p.ack_ranges[1] = [first |-> 5, last |-> 6]
     /\ p.ack_ranges[3] = [first |-> 0, last |-> 1]

\* the frame parsed by the last step satisfies
\* first_ack_range <= largest_ack <= tx.next_pn
AckValid ==
  /\ last_ack.ack.first_ack_range <= last_ack.ack.largest_ack
  /\ last_ack.ack.largest_ack <= last_ack.next_pn

\* C13: an ACK frame is acted upon only if first_ack_range <= largest_ack
\* <= tx.next_pn; a frame that is not so frees and moves no descriptor and
\* is a connection error: qc_do_hdshk() fails.
C13_AckValidity ==
  last_ack.level # NULL =>
    /\ last_ack.ok => AckValid
    /\ ~AckValid =>
         /\ last_ack.frms1 = last_ack.frms0
         /\ last_ack.rtx1 = last_ack.rtx0
         /\ hdshk_ret # "ok"

C14_Step ==
  (wait_hs /\ ~wait_hs') =>
    state' = IF state = "SERVER_HANDSHAKE" THEN "SERVER_HANDSHAKE_DONE"
             ELSE "CLIENT_HANDSHAKE_DONE"

\* C14: the step in which the TLS handshake completes moves the state from
\* SERVER_HANDSHAKE to SERVER_HANDSHAKE_DONE and from CLIENT_HANDSHAKE to
\* CLIENT_HANDSHAKE_DONE.
C14_HandshakeDone == [][C14_Step]_vars

C15_Step ==
  hdshk_ret = "err" =>
    /\ state = "CLOSED"
    /\ state' = "CLOSED"
    /\ built' = <<>>
    /\ sent' = <<>>
    /\ provided' = provided
    /\ pktns' = pktns

\* C15: once qc_do_hdshk() failed (a builder result of -2, a failure of
\* SSL_provide_quic_data(), a fatal result of SSL_do_handshake()), the
\* connection is CLOSED and stays so: no packet is parsed, built or sent
\* any more.
C15_FatalErrorCloses == [][C15_Step]_vars

\* the level of the turn of qc_do_hdshk() that starts in the current state
TurnLevel == IF pc = "idle" THEN tls_enc_level(state) ELSE enc_level

\* the level <l> once the header protection of its pending packets is removed
Unprotected(l) == qc_rm_hp_pkts(qel[l], pktns[l].largest_pn)

\* <pn> is the number a truncated packet number stands for, given the largest
\* packet number received
InPnWindow(pn, largest_pn, truncated_pn, pnl) ==
  /\ pn % (2 ^ (8 * pnl)) = truncated_pn
  /\ pn > largest_pn + 1 - 2 ^ (8 * pnl - 1)
  /\ pn <= largest_pn + 1 + 2 ^ (8 * pnl - 1)

\* C16: a packet received for a level whose rx secrets are not installed is
\* appended to the pending list of the level and is neither inserted in the
\* rx tree nor decrypted; a turn of the handshake driver at a level whose
\* secrets are installed empties the pending list of the level and inserts
\* each pending packet in the rx tree under its decoded packet number, and a
\* level with installed secrets and pending packets is one the next run of the
\* driver visits
C16_Step ==
  /\ nb_rcv' = nb_rcv + 1 =>
        \A l \in Levels :
          (qel'[l] # qel[l] /\ ~qel'[l].rx_secrets) =>
            /\ qel'[l].qpkts = qel[l].qpkts
            /\ Len(qel'[l].pqpkts) = Len(qel[l].pqpkts) + 1
            /\ SubSeq(qel'[l].pqpkts, 1, Len(qel[l].pqpkts)) = qel[l].pqpkts
            /\ pktns' = pktns
            /\ provided' = provided
  /\ (nb_rcv' = nb_rcv /\ qel[TurnLevel].rx_secrets /\ qel[TurnLevel].pqpkts # <<>>) =>
        LET pend == qel[TurnLevel].pqpkts
            tree == Unprotected(TurnLevel).qpkts
        IN /\ qel'[TurnLevel].pqpkts = <<>>
           /\ Len(tree) = Len(qel[TurnLevel].qpkts) + Len(pend)
           /\ \A i, j \in 1..Len(tree) : i < j => tree[i].pn <= tree[j].pn
           /\ \A i \in 1..Len(pend) :
                \E j \in 1..Len(tree) :
                  /\ tree[j].frames = pend[i].frames
                  /\ tree[j].truncated_pn = pend[i].truncated_pn
                  /\ InPnWindow(tree[j].pn, pktns[TurnLevel].largest_pn,
                                pend[i].truncated_pn, pend[i].pnl)
           /\ \A i \in 1..Len(qel'[TurnLevel].qpkts) :
                \E j \in 1..Len(tree) : tree[j].pn = qel'[TurnLevel].qpkts[i].pn
           /\ pktns'[TurnLevel].rcvd \subseteq
                pktns[TurnLevel].rcvd \cup {tree[j].pn : j \in 1..Len(tree)}
  /\ \A l \in Levels :
        (pc' = "idle" /\ wait_hs' /\ qel'[l].rx_secrets /\ qel'[l].pqpkts # <<>>) =>
          l \in {tls_enc_level(state'), tls_next_enc_level(state')}

OpenFails(pkt) == ~pkt.out_of_order /\ ~pkt.decrypt_ok

Opens(pkt) == ~OpenFails(pkt)

\* the connection at the start of a turn at level <l>, once the header
\* protection of the pending packets is removed
TurnConn(l) ==
  IF qel[l].rx_secrets THEN [Conn EXCEPT !.qel[l] = Unprotected(l)] ELSE Conn

\* C17: a received packet whose AEAD open fails has no effect but its own
\* removal: its insertion in the rx tree changes neither the state of the
\* connection nor the packet number spaces, the CRYPTO offsets and the trees
\* of CRYPTO descriptors, and a turn of the handshake driver that finds it in
\* the rx tree removes it and otherwise treats the tree as if the packet were
\* not in it
C17_Step ==
  /\ nb_rcv' = nb_rcv + 1 =>
        \A l \in Levels :
          (\E i \in 1..Len(qel'[l].qpkts) :
              /\ qel'[l].qpkts[i].truncated_pn = next_rx_pn % (2 ^ 8)
              /\ OpenFails(qel'[l].qpkts[i])) =>
            /\ state' = state
            /\ pktns' = pktns
            /\ provided' = provided
            /\ \A k \in Levels :
                 /\ qel'[k].rx_offset = qel[k].rx_offset
                 /\ qel'[k].frms = qel[k].frms
                 /\ qel'[k].retransmit_frms = qel[k].retransmit_frms
  /\ (nb_rcv' = nb_rcv /\ TurnConn(TurnLevel).qel[TurnLevel].qpkts # <<>>) =>
        LET c0 == TurnConn(TurnLevel)
            tree == c0.qel[TurnLevel].qpkts
        IN (\E i \in 1..Len(tree) : OpenFails(tree[i])) =>
             /\ \A i \in 1..Len(qel'[TurnLevel].qpkts) :
                  ~OpenFails(qel'[TurnLevel].qpkts[i])
             /\ qc_treat_rx_pkts(c0, TurnLevel, 1)
                  = qc_treat_rx_pkts(
                      [c0 EXCEPT !.qel[TurnLevel].qpkts = SelectSeq(tree, Opens)],
                      TurnLevel, 1)

C17_OpenFailureIsSilent == [][C17_Step]_vars
\* the packets built so far that are still known: those of the last step and
\* those of the output buffers
KnownPkts ==
  {built[i] : i \in 1..Len(built)}
  \cup {sent[i] : i \in 1..Len(sent)}
  \cup UNION {{tx.bufs[b].pkts[i] : i \in 1..Len(tx.bufs[b].pkts)} :
                b \in 1..QUIC_CONN_TX_BUFS_NB}

\* C18: every Initial packet built by a client is at least 1200 bytes long,
\* and so is the value of its Length field, whether the packet carries CRYPTO
\* data, an ACK frame only, or retransmitted CRYPTO data; its length is what
\* its frames and its padding add up to
C18_ClientInitialPadded ==
  target = "server" =>
    \A pkt \in KnownPkts :
      pkt.level = QUIC_TLS_ENC_LEVEL_INITIAL =>
        /\ pkt.size >= QUIC_INITIAL_PACKET_MINLEN
        /\ pkt.length >= QUIC_INITIAL_PACKET_MINLEN
        /\ pkt.padding_len >= 0
        /\ pkt.padding_len > 0 => pkt.length = QUIC_INITIAL_PACKET_MINLEN

\* a client built an Initial packet that only carries an ACK frame, padded
C18_Witness ==
  /\ target = "server"
  /\ \E i \in 1..Len(built) :
       /\ built[i].level = QUIC_TLS_ENC_LEVEL_INITIAL
       /\ built[i].crypto_len = 0
       /\ built[i].ack # <<>>
       /\ built[i].padding_len > 0
       /\ built[i].size >= QUIC_INITIAL_PACKET_MINLEN
\* C19: a received long-header packet whose Version field is 0 is dropped: it
\* is in no pending list and in no rx tree, and when it is the first packet
\* that reaches a listener it creates no connection (no Initial secrets are
\* derived for it)
C19_Version0Dropped ==
  /\ \A l \in Levels :
       /\ \A i \in 1..Len(qel[l].qpkts) : qel[l].qpkts[i].version # 0
       /\ \A i \in 1..Len(qel[l].pqpkts) : qel[l].pqpkts[i].version # 0
  /\ (/\ target = "listener" /\ nb_rcv = 1 /\ pc = "idle" /\ hdshk_ret = "none"
      /\ qel[QUIC_TLS_ENC_LEVEL_INITIAL].qpkts = <<>>) =>
       ~qel[QUIC_TLS_ENC_LEVEL_INITIAL].rx_secrets
\* C20: the packet number given to a packet is congruent to the value of its
\* packet number field modulo 2^pnbits and lies in (expected - hwin,
\* expected + hwin], with expected the largest packet number received plus
\* one and hwin = 2^(pnbits - 1), unless the value of that window is
\* negative; with 0xAAF0 as largest packet number, one byte that holds 0x01
\* stands for 0xAB01
C20_PnInWindow ==
  \A i \in 1..Len(qel[QUIC_TLS_ENC_LEVEL_INITIAL].qpkts) :
    LET pkt == qel[QUIC_TLS_ENC_LEVEL_INITIAL].qpkts[i]
        largest_pn == pktns[QUIC_TLS_ENC_LEVEL_INITIAL].largest_pn
        pn_win == 2 ^ (8 * pkt.pnl)
    IN /\ pkt.pn >= 0
       /\ pkt.pn % pn_win = pkt.truncated_pn
       /\ \/ InPnWindow(pkt.pn, largest_pn, pkt.truncated_pn, pkt.pnl)
          \/ \E k \in {-2, -1, 1, 2} :
               /\ pkt.pn + k * pn_win < 0
               /\ InPnWindow(pkt.pn + k * pn_win, largest_pn, pkt.truncated_pn, pkt.pnl)
       /\ (largest_pn = 43760 /\ pkt.truncated_pn = 1 /\ pkt.pnl = 1) => pkt.pn = 43777

\* the example: 0xAAF0 is the largest packet number received and the packet
\* number field is one byte that holds 0x01
C20_Witness ==
  /\ pktns[QUIC_TLS_ENC_LEVEL_INITIAL].largest_pn = 43760
  /\ Len(qel[QUIC_TLS_ENC_LEVEL_INITIAL].qpkts) = 1
  /\ qel[QUIC_TLS_ENC_LEVEL_INITIAL].qpkts[1].truncated_pn = 1
  /\ qel[QUIC_TLS_ENC_LEVEL_INITIAL].qpkts[1].pnl = 1
  /\ qel[QUIC_TLS_ENC_LEVEL_INITIAL].qpkts[1].pn = 43777

\* C34: every call of qc_do_hdshk() returns after finitely many turns of
\* its next_level loop, whatever stays in the rx tree of the next encryption
\* level: no turn of the loop leaves the connection as it found it, going
\* back to next_level once more
C34_TurnChangesState ==
  pc = "next_level" => ENABLED <<qc_do_hdshk_next_level>>_vars

\* the same as a property of the behaviours in which the tasklet keeps
\* running: a call that went back to next_level comes to its end
C34_HdshkTerminates == (pc = "next_level") ~> (pc = "idle")

\* the bytes of the CRYPTO stream a descriptor stands for
FrmBytes(f) == f.offset .. f.offset + f.len - 1

\* the bytes covered by the descriptors of the outgoing and retransmit trees
CoveredBytes(el) == UNION {FrmBytes(f) : f \in el.frms \cup el.retransmit_frms}

\* the packet numbers an ACK frame acknowledges
RECURSIVE AckRangePns(_, _, _)
AckRangePns(largest, smallest, ranges) ==
  (smallest .. largest)
  \cup IF ranges = <<>> THEN {}
       ELSE AckRangePns(smallest - ranges[1][1] - 2,
                        smallest - ranges[1][1] - 2 - ranges[1][2],
                        Tail(ranges))

RxAckedPns(pkts) ==
  UNION {AckRangePns(pkts[i].frames[j].ack.largest_ack,
                     pkts[i].frames[j].ack.largest_ack
                       - pkts[i].frames[j].ack.first_ack_range,
                     pkts[i].frames[j].ack.ranges) :
           <<i, j>> \in {<<i, j>> \in (1..Len(pkts)) \X (1..1) :
                           /\ j <= Len(pkts[i].frames)
                           /\ pkts[i].frames[j].type = "ACK"}}

\* the bytes of the descriptors that the ACK frames of the packets received
\* at a level, and not yet treated, acknowledge
AckedBytes(el) ==
  UNION {FrmBytes(f) :
           f \in {g \in el.frms :
                    g.pn \in RxAckedPns(el.qpkts) \cup RxAckedPns(el.pqpkts)}}

\* C35: no outbound CRYPTO byte is forgotten: a byte covered by a descriptor
\* of the outgoing or of the retransmit tree of a level stays covered by one
\* of them unless a received ACK frame acknowledges a packet that carried it,
\* and every byte newly emitted (below tx.crypto.offset) is covered; so the
\* descriptor made of the frames lost in one gap covers all their bytes
C35_NoCryptoByteForgotten ==
  [][\A l \in Levels :
       /\ (CoveredBytes(qel[l]) \ AckedBytes(qel[l])) \subseteq CoveredBytes(qel'[l])
       /\ (qel[l].tx_offset .. qel'[l].tx_offset - 1) \subseteq CoveredBytes(qel'[l])]_vars

\* the sum of the lengths of a set of descriptors
RECURSIVE FrmsLen(_)
FrmsLen(T) ==
  IF T = {} THEN 0
  ELSE LET f == CHOOSE g \in T : TRUE IN f.f.len + FrmsLen(T \ {f})

OutgoingLen == FrmsLen(UNION {{[l |-> l, f |-> f] : f \in qel[l].frms} : l \in Levels})

\* C36: crypto_in_flight is the sum of the lengths of the descriptors of the
\* outgoing CRYPTO trees of all the encryption levels, the descriptors of the
\* retransmit trees left out, and it is never negative
C36_InFlightIsOutgoingSum ==
  /\ crypto_in_flight = OutgoingLen
  /\ crypto_in_flight >= 0

\* an ACK frame made one descriptor of two lost ones, which was sent again
C36_Witness ==
  /\ last_ack.level # NULL
  /\ Cardinality(last_ack.lost) = 2
  /\ built # <<>>
  /\ crypto_in_flight > 0
  /\ crypto_in_flight = OutgoingLen

\* C37: whenever the retransmit flag of the connection is 0 the retransmit
\* trees of all the encryption levels are empty
C37_NoLostDataWithoutFlag ==
  retransmit = 0 => \A l \in Levels : qel[l].retransmit_frms = {}

\* the packets of the rx tree of a level that were parsed and kept, and whose
\* CRYPTO data lie below the offset of the data already delivered
RxDuplicates(el) ==
  {i \in 1..Len(el.qpkts) :
     /\ el.qpkts[i].out_of_order
     /\ el.qpkts[i].crypto_len # 0
     /\ el.qpkts[i].crypto_offset < el.rx_offset}

\* C38: a packet does not stay in the rx tree of a level once the CRYPTO
\* bytes before its offset were delivered: no packet that the tasklet parsed
\* and kept carries CRYPTO data below rx.crypto.offset
C38_NoDuplicateStays == \A l \in Levels : RxDuplicates(qel[l]) = {}

\* what the code does with such packets: none of them ever leaves the tree
C38_DuplicateIsKept ==
  [][\A l \in Levels :
       Cardinality(RxDuplicates(qel'[l])) >= Cardinality(RxDuplicates(qel[l]))]_vars

\* the packets committed to the output ring and not handed to the transport
\* yet, in the order of the ring from the reader buffer on
RECURSIVE RingPkts(_, _, _)
RingPkts(t, b, n) ==
  IF n = 0 THEN <<>>
  ELSE t.bufs[b + 1].pkts \o RingPkts(t, (b + 1) % QUIC_CONN_TX_BUFS_NB, n - 1)

Pending(t) == RingPkts(t, t.rbuf, QUIC_CONN_TX_BUFS_NB)

\* the packets of a history without the descriptor they were made from
Committed(s) == [i \in 1..Len(s) |-> [s[i] EXCEPT !.from = NULL]]

C39_Step ==
  nb_rcv' = nb_rcv =>
    LET flight == Pending(tx) \o Committed(built')
    IN /\ Len(sent') <= Len(flight)
       /\ sent' = SubSeq(flight, 1, Len(sent'))
       /\ Pending(tx') = SubSeq(flight, Len(sent') + 1, Len(flight))
       /\ failure' = NoFail => Pending(tx') = <<>>

\* C39: no committed packet is lost, duplicated or reordered between the
\* builder and the transport: what a tasklet step hands to the transport is
\* the beginning of the packets committed before, in the order of their
\* commit, followed by those it committed; the other ones stay in the ring;
\* and when no library call fails none is left behind
C39_CommittedPacketsAreSent == [][C39_Step]_vars


(***************************************************************************)
(* Properties of the mux (mux_h3.c).                                       *)
(***************************************************************************)

\* C21: over the life of a connection at most one GOAWAY frame is written to
\* the output buffer, whatever asked for it (proxy stop, connection error,
\* timeout).  <mux_hist.goaway> counts the GOAWAY frames written.
C21_AtMostOneGoaway == mux_hist.goaway <= 1

\* the connection exists and has H3_CF_GOAWAY_FAILED
GoawayFailed(c) == c # NoH3c /\ "GOAWAY_FAILED" \in c.flags

TimeoutStep == \E room \in {"ok", "malloc"}, xprt \in {"all", "none"} : H3TimeoutTask(room, xprt)

\* the task let the connection expire: it gave up the task after its final
\* GOAWAY attempt, and released the connection if no stream was left
Expires ==
  /\ mux_hist'.expired
  /\ \/ h3c' = NoH3c
     \/ ~h3c'.task /\ h3c'.streams_by_id # {}
                   /\ (mux_hist'.goaway = mux_hist.goaway + 1 \/ GoawayFailed(h3c'))

\* the task re-armed the timeout to infinity and touched nothing else
Rearmed ==
  /\ h3c' = [h3c EXCEPT !.expire = "eternity"]
  /\ UNCHANGED <<h3s, app>>
  /\ mux_hist'.goaway = mux_hist.goaway /\ ~mux_hist'.expired

\* C23 as the code has it: when the timeout task fires, the connection expires
\* exactly when it has no stream at all, or has buffered output, or has a stream
\* in one of the three lists; otherwise (streams exist and all of them wait for
\* the data layer) the timeout is re-armed to infinity and the connection kept.
C23_ExpireIfNoStreamOrPending ==
  [][TimeoutStep =>
       IF \/ h3c.streams_by_id = {}
          \/ h3c.mbuf
          \/ h3c.blocked_list # <<>> \/ h3c.fctl_list # <<>> \/ h3c.send_list # <<>>
       THEN Expires
       ELSE Rearmed]_vars

\* the timeout fired on a connection whose only stream waits for the data
\* layer (kept), and on one that still had output buffered (expired)
C23_Witness ==
  /\ h3c # NoH3c
  /\ mux_hist.expired
  /\ h3c.streams_by_id # {}
  /\ "GOAWAY_FAILED" \in h3c.flags

\* C23 as stated: the connection expires exactly when it has no stream, no
\* buffered output and no stream in a list, and is kept in every other case.
C23_ExpireOnlyWhenIdle ==
  [][TimeoutStep =>
       IF /\ h3c.streams_by_id = {}
          /\ ~h3c.mbuf
          /\ h3c.blocked_list = <<>> /\ h3c.fctl_list = <<>> /\ h3c.send_list = <<>>
       THEN Expires
       ELSE Rearmed]_vars

\* the stream whose DATA frames the step wrote
Sender == CHOOSE p \in Ptrs : mux_hist'.tx[p] # mux_hist.tx[p]

\* C24: each DATA frame written has a payload of at most the window of its
\* stream (miw + sws), at most the connection window mws and at most mfs, as
\* they were when the frame was built, and the frame takes exactly its payload
\* off sws and off mws: the next frame of the call starts from the windows so
\* decreased, and the call leaves them so decreased.
C24_DataWithinCredit ==
  [][mux_hist'.tx # mux_hist.tx =>
       LET fs == mux_hist'.frames
           n == Len(fs)
       IN /\ n > 0
          /\ \A i \in 1..n :
               /\ fs[i].len > 0
               /\ fs[i].len <= fs[i].miw + fs[i].sws
               /\ fs[i].len <= fs[i].mws
               /\ fs[i].len <= fs[i].mfs
               /\ fs[i].mws - fs[i].len = IF i < n THEN fs[i + 1].mws ELSE h3c'.mws
               /\ fs[i].sws - fs[i].len = IF i < n THEN fs[i + 1].sws ELSE h3s'[Sender].sws
               /\ fs[i].mws = IF i = 1 THEN h3c.mws ELSE fs[i].mws
               /\ fs[i].sws = IF i = 1 THEN h3s[Sender].sws ELSE fs[i].sws]_vars

\* one call wrote two DATA frames, the second one cut by the window of the
\* connection
C24_Witness ==
  /\ Len(mux_hist.frames) = 2
  /\ mux_hist.frames[2].len = mux_hist.frames[2].mws
  /\ mux_hist.frames[2].len < MaxBlk
  /\ h3c.mws = 0

\* the windows are those of h3_init(): no SETTINGS changed miw and no
\* WINDOW_UPDATE was received
InitialWindows(g) == g.nb_settings = 0 /\ g.nb_wu = 0

\* C25 as the code has it, with miw = mws = 65535 and 100,000 bytes to send on
\* one stream: every byte is written once (what was written and what is left
\* add up to 100,000); with the initial windows at most 65535 bytes are written,
\* and the stream is on blocked_list, blocked on its own window, only once all
\* 65535 are written; a WINDOW_UPDATE of the connection raises mws and leaves
\* the stream on blocked_list; a WINDOW_UPDATE of the stream takes it off
\* blocked_list and, if it subscribed, queues it in send_list; nothing beyond
\* 65535 bytes is written before both updates were received.
C25_BurstThenBothUpdates ==
  [][h3c # NoH3c /\ h3c' # NoH3c =>
       \A p \in h3c'.streams_by_id :
         /\ mux_hist'.tx[p] <= Payload
         /\ app'[p] # NoApp => app'[p].data + mux_hist'.tx[p] = Payload
         /\ "ES_SENT" \in h3s'[p].flags => mux_hist'.tx[p] = Payload
         /\ InitialWindows(mux_hist') =>
              /\ mux_hist'.tx[p] <= 65535
              /\ InSeq(h3c'.blocked_list, p) =>
                   mux_hist'.tx[p] = 65535 /\ "BLK_SFCTL" \in h3s'[p].flags
         /\ (mux_hist'.nb_settings = 0 /\ mux_hist'.tx[p] > 65535) => mux_hist'.nb_wu >= 2
         /\ h3c'.mws > h3c.mws =>
              /\ h3c'.blocked_list = h3c.blocked_list
              /\ mux_hist'.tx = mux_hist.tx
         /\ (p \in h3c.streams_by_id /\ InSeq(h3c.blocked_list, p)
               /\ h3s'[p].sws > h3s[p].sws /\ Add32(h3s'[p].sws, h3c'.miw) > 0) =>
              /\ ~InSeq(h3c'.blocked_list, p)
              /\ "BLK_SFCTL" \notin h3s'[p].flags
              /\ InSeq(h3c'.send_list, p) = (h3s[p].subs \/ InSeq(h3c.send_list, p))]_vars

\* after the burst of 65535 bytes and one WINDOW_UPDATE of each kind, the
\* stream has written its 100,000 bytes and ended
C25_Witness ==
  /\ h3c # NoH3c
  /\ mux_hist.nb_settings = 0
  /\ mux_hist.nb_wu = 2
  /\ h3c.mws = H3_MAX_WINDOW - (Payload - 65535)
  /\ \E p \in h3c.streams_by_id : mux_hist.tx[p] = Payload /\ "ES_SENT" \in h3s[p].flags

\* C25 as stated: when the WINDOW_UPDATE that raises the window of the
\* connection to 2^31-1 arrives, the blocked stream is moved to send_list.
C25_ConnUpdateUnblocks ==
  [][(h3c # NoH3c /\ h3c' # NoH3c /\ h3c.mws = 0 /\ h3c'.mws = H3_MAX_WINDOW) =>
       \A p \in h3c.streams_by_id :
         (InSeq(h3c.blocked_list, p) /\ mux_hist.tx[p] = 65535) =>
           InSeq(h3c'.send_list, p)]_vars

\* C26: the window of the connection (mws) and the window of every stream
\* (miw + sws) stay at or below 2^31-1.
C26_WindowsBounded ==
  h3c # NoH3c =>
    /\ h3c.mws <= H3_MAX_WINDOW
    /\ \A p \in h3c.streams_by_id : h3s[p].sws <= H3_MAX_WINDOW - h3c.miw

\* C27: in a step where a SETTINGS frame changed miw, every stream that was on
\* blocked_list with H3_SF_BLK_SFCTL and whose window miw + sws is positive
\* after the step is off blocked_list and has lost H3_SF_BLK_SFCTL.
C27_SettingsUnblocks ==
  [][(h3c # NoH3c /\ h3c' # NoH3c /\ h3c'.miw # h3c.miw) =>
       \A p \in h3c.streams_by_id :
         (/\ InSeq(h3c.blocked_list, p)
          /\ "BLK_SFCTL" \in h3s[p].flags
          /\ h3s'[p].sws > 0 - h3c'.miw) =>
           /\ ~InSeq(h3c'.blocked_list, p)
           /\ "BLK_SFCTL" \notin h3s'[p].flags]_vars

\* C28: nb_streams is the number of streams in the streams_by_id tree of the
\* connection.
C28_NbStreamsIsTreeSize ==
  h3c # NoH3c => h3c.nb_streams = Cardinality(h3c.streams_by_id)

\* how many times the stream <p> is linked in the three lists
Links(p) ==
  Cardinality({i \in 1..Len(h3c.send_list) : h3c.send_list[i] = p})
  + Cardinality({i \in 1..Len(h3c.fctl_list) : h3c.fctl_list[i] = p})
  + Cardinality({i \in 1..Len(h3c.blocked_list) : h3c.blocked_list[i] = p})

\* C29: each stream is linked at most once in send_list, fctl_list and
\* blocked_list taken together: no operation queues a stream that is still
\* linked, in another list or in the same one.
C29_OneListAtMost == h3c # NoH3c => \A p \in Ptrs : Links(p) <= 1

\* one stream is on blocked_list, out of its own window, while another one,
\* moved off blocked_list by a WINDOW_UPDATE of the stream, is in send_list
C29_Witness ==
  /\ h3c # NoH3c
  /\ \E p, q \in h3c.streams_by_id :
       /\ p # q
       /\ InSeq(h3c.blocked_list, p)
       /\ InSeq(h3c.send_list, q)
       /\ h3s[q].sws > 0

\* C30: once last_sid >= 0 on a backend connection, no step creates a stream
\* on it (the tree gets no new stream) and none assigns a stream id (max_id,
\* the last assigned id, stays as it is).
C30_NoNewStreamAfterGoaway ==
  [][(h3c # NoH3c /\ h3c' # NoH3c /\ "IS_BACK" \in h3c.flags /\ h3c.last_sid >= 0) =>
       /\ h3c'.streams_by_id \subseteq h3c.streams_by_id
       /\ h3c'.max_id = h3c.max_id]_vars


\* the GOAWAY frame of the connection was written to the output buffer, or it
\* was given up: the buffer is stuck, or no stream was ever opened
GoawayWrittenOrAbandoned(c, g) ==
  g.goaway > 0 \/ "GOAWAY_SENT" \in c.flags \/ "GOAWAY_FAILED" \in c.flags \/ c.max_id <= 0

\* C31: the error states of the connection are ordered and absorbing: from
\* H3_CS_ERROR the state only moves to H3_CS_ERROR2, H3_CS_ERROR2 is entered
\* only once the GOAWAY frame was written or abandoned, and a connection in
\* H3_CS_ERROR2 stays in H3_CS_ERROR2
C31_ErrorStatesAbsorbing ==
  [][(h3c # NoH3c /\ h3c' # NoH3c) =>
       /\ h3c.st0 = H3_CS_ERROR => h3c'.st0 \in {H3_CS_ERROR, H3_CS_ERROR2}
       /\ (h3c'.st0 = H3_CS_ERROR2 /\ h3c.st0 # H3_CS_ERROR2)
            => GoawayWrittenOrAbandoned(h3c', mux_hist')
       /\ h3c.st0 = H3_CS_ERROR2 => h3c'.st0 = H3_CS_ERROR2]_vars

\* the error code h3_do_shutr() gives a stream that has no KILL_CONN
ShutrCode(s) == IF "HEADERS_SENT" \in s.flags THEN "CANCEL" ELSE "REFUSED_STREAM"

\* C32: h3_shutr() without KILL_CONN on a stream that is not closed and was
\* not reset yet writes, when the output buffer has room, one RST_STREAM frame
\* for the stream, with REFUSED_STREAM if no HEADERS frame was sent on the
\* stream and with CANCEL otherwise; when the buffer has no room no frame of
\* another code is written either
C32_ShutrRstCode ==
  [][\A p \in Ptrs :
       ((\E room \in {"ok", "mfull"} : H3Shutr(p, FALSE, room))
          /\ h3s[p].st # H3_SS_CLOSED
          /\ {"KILL_CONN", "RST_SENT"} \cap h3s[p].flags = {})
       => /\ \A i \in 1..Len(mux_hist'.rst) :
               mux_hist'.rst[i] = [id |-> h3s[p].id, errcode |-> ShutrCode(h3s[p])]
          /\ H3Shutr(p, FALSE, "ok") => Len(mux_hist'.rst) = 1]_vars

\* the streams that got their id in the step: created with one, or given one
NewIds(c, s, c2, s2) ==
  {s2[p].id : p \in {q \in c2.streams_by_id :
                       s2[q].id # 0 /\ (q \notin c.streams_by_id \/ s[q].id # s2[q].id)}}

OpenStreams(c, s) == {p \in c.streams_by_id : s[p].st # H3_SS_CLOSED}

\* C40: a stream that is H3_SS_CLOSED stays H3_SS_CLOSED as long as it is in
\* the tree, and nb_streams is counted down once per stream, when the stream
\* closes: after every step it is the number of streams of the tree that are
\* not closed, so it is never negative
C40_ClosedIsFinal ==
  [][h3c' # NoH3c =>
       /\ h3c # NoH3c =>
            \A p \in h3c.streams_by_id \cap h3c'.streams_by_id :
               h3s[p].st = H3_SS_CLOSED => h3s'[p].st = H3_SS_CLOSED
       /\ h3c'.nb_streams = Cardinality(OpenStreams(h3c', h3s'))
       /\ h3c'.nb_streams >= 0]_vars

\* a stream closed by h3_do_shutr(), which closes it when the RST_STREAM is
\* written and once more when h3s_send_rst_stream() returns
C40_Witness ==
  /\ h3c # NoH3c
  /\ h3c.nb_streams = 0
  /\ \E p \in h3c.streams_by_id :
        /\ h3s[p].st = H3_SS_CLOSED
        /\ "RST_SENT" \in h3s[p].flags
        /\ h3s[p].errcode = "REFUSED_STREAM"

====
